---------------------------- MODULE Spec2Model ----------------------------
(***************************************************************************)
(* fs-cachebox: the CacheBox storage engine of src/src/main.ts.            *)
(*                                                                         *)
(* Strings are sequences of character codes, so that key validation, the   *)
(* filename codec (generateFileName / parseFileName) and the number        *)
(* formatting inside it are computed as the code computes them.            *)
(* A value is named by a string; what the engine does with a value depends *)
(* only on the length of its flatted encoding and of its gzip+base64 form. *)
(***************************************************************************)
EXTENDS Integers, Sequences, FiniteSets, TLC

VARIABLES
    cfg,        \* the options applied by the constructor (main.ts 133-153)
    cache,      \* _cache: the Map key -> CacheEntry, in insertion order
    disk,       \* the cache directory: file name -> file
    stats,      \* _stats: the counters hits, misses, sets, deletes, errors
    subscribed, \* listenerCount("error") > 0
    timer,      \* _cleanupTimer is set: the interval of auto-cleanup runs
    inflight,   \* the asynchronous batch that is running, and its calls
    tally,      \* the calls made since construction or the last resetStats:
                \* gets with a valid key, and sets that returned true
    now,        \* Date.now()
    last        \* the most recent public call, its arguments, what it
                \* returned and the events it emitted

vars == <<cfg, cache, disk, stats, subscribed, timer, inflight, tally, now, last>>

---------------------------------------------------------------------------
(* Bounds of the model *)

\* the clock runs from 1 to MaxClock
MaxClock == 3

---------------------------------------------------------------------------
(* Characters and strings *)

\* key.length > 255 is rejected
MaxKeyLength == 255

Underscore == 95
LetterC == 99
Digits == 48..57

\* `${n}` for a non-negative integer n
RECURSIVE NumToStr(_)
NumToStr(n) ==
    IF n < 10 THEN <<48 + n>>
    ELSE NumToStr(n \div 10) \o <<48 + (n % 10)>>

\* Number(s) for a string of decimal digits
RECURSIVE StrToNum(_)
StrToNum(s) ==
    IF Len(s) = 0 THEN 0
    ELSE 10 * StrToNum(SubSeq(s, 1, Len(s) - 1)) + (s[Len(s)] - 48)

IsDigits(s) == Len(s) > 0 /\ \A i \in 1..Len(s) : s[i] \in Digits

\* String.prototype.includes for a one-character needle
IncludesChar(s, ch) == \E i \in 1..Len(s) : s[i] = ch

\* String.prototype.includes for a two-character needle
IncludesPair(s, c1, c2) ==
    \E i \in 1..(Len(s) - 1) : s[i] = c1 /\ s[i + 1] = c2

\* the /i flag: letters compare by their upper-case form
ToUpper(s) == [i \in 1..Len(s) |-> IF s[i] \in 97..122 THEN s[i] - 32 ELSE s[i]]

\* [<>:"/\\|?*\x00-\x1f]
InvalidChars == {60, 62, 58, 34, 47, 92, 124, 63, 42} \cup (0..31)

\* ^(CON|PRN|AUX|NUL|COM[1-9]|LPT[1-9])$ without the /i flag
ReservedNames ==
    {<<67, 79, 78>>, <<80, 82, 78>>, <<65, 85, 88>>, <<78, 85, 76>>}
    \cup {<<67, 79, 77, d>> : d \in 49..57}
    \cup {<<76, 80, 84, d>> : d \in 49..57}

\* a validateKey whose reserved-name test has no /i flag
validateKeyCaseSensitive(key) ==
    /\ Len(key) # 0
    /\ Len(key) <= MaxKeyLength
    /\ ~IncludesPair(key, 46, 46)
    /\ ~IncludesChar(key, 47)
    /\ ~IncludesChar(key, 92)
    /\ \A i \in 1..Len(key) : key[i] \notin InvalidChars
    /\ key \notin ReservedNames

\* CacheBox.validateKey
validateKey(key) ==
    /\ Len(key) # 0
    /\ Len(key) <= MaxKeyLength
    /\ ~IncludesPair(key, 46, 46)
    /\ ~IncludesChar(key, 47)
    /\ ~IncludesChar(key, 92)
    /\ \A i \in 1..Len(key) : key[i] \notin InvalidChars
    /\ ToUpper(key) \notin ReservedNames

---------------------------------------------------------------------------
(* FilenameCodec *)

\* CacheBox.generateFileName: `${key}_${ttl}${compressed ? "_c" : ""}`
generateFileName(key, ttl, compressed) ==
    key \o <<Underscore>> \o NumToStr(ttl)
        \o (IF compressed THEN <<Underscore, LetterC>> ELSE <<>>)

\* the part of a file name after the key matches _(\d+)(_c)?$
IsSuffix(r) ==
    /\ Len(r) >= 2
    /\ r[1] = Underscore
    /\ \/ IsDigits(SubSeq(r, 2, Len(r)))
       \/ /\ Len(r) >= 4
          /\ r[Len(r) - 1] = Underscore
          /\ r[Len(r)] = LetterC
          /\ IsDigits(SubSeq(r, 2, Len(r) - 2))

\* the line terminators of a regular expression: LF, CR, U+2028 and U+2029
LineTerminators == {10, 13, 8232, 8233}

\* the lengths (.+) can take in ^(.+)_(\d+)(_c)?$ ; "." matches no line
\* terminator
KeyLengths(fileName) ==
    {n \in 1..(Len(fileName) - 2) :
        /\ \A i \in 1..n : fileName[i] \notin LineTerminators
        /\ IsSuffix(SubSeq(fileName, n + 1, Len(fileName)))}

SetMax(S) == CHOOSE x \in S : \A y \in S : y <= x

\* a parseFileName that reads no compression flag
parseFileNameNoFlag(fileName) ==
    IF KeyLengths(fileName) = {} THEN [ok |-> FALSE, key |-> <<>>, ttl |-> 0, compressed |-> FALSE]
    ELSE LET n == SetMax(KeyLengths(fileName))
             r == SubSeq(fileName, n + 2, Len(fileName))
             c == ~IsDigits(r)
         IN [ok |-> TRUE,
             key |-> SubSeq(fileName, 1, n),
             ttl |-> StrToNum(IF c THEN SubSeq(r, 1, Len(r) - 2) ELSE r),
             compressed |-> FALSE]

\* CacheBox.parseFileName: (.+) is greedy, it takes the longest key
parseFileName(fileName) ==
    IF KeyLengths(fileName) = {} THEN [ok |-> FALSE, key |-> <<>>, ttl |-> 0, compressed |-> FALSE]
    ELSE LET n == SetMax(KeyLengths(fileName))
             r == SubSeq(fileName, n + 2, Len(fileName))
             c == ~IsDigits(r)
         IN [ok |-> TRUE,
             key |-> SubSeq(fileName, 1, n),
             ttl |-> StrToNum(IF c THEN SubSeq(r, 1, Len(r) - 2) ELSE r),
             compressed |-> c]

---------------------------------------------------------------------------
(* Values and the Serializer *)

\* Buffer.byteLength(stringify(value), "utf8"); "null" is the value null,
\* "four" a text as long as the compression threshold of the configurations
\* below, "noise" a text that gzip and base64 make longer, "wide" a text of
\* four characters that take six bytes, whose gzip+base64 form has five
ByteLength(value) ==
    CASE value = "tiny" -> 2
      [] value = "four" -> 4
      [] value = "big" -> 6
      [] value = "noise" -> 6
      [] value = "wide" -> 6
      [] value = "huge" -> 9
      [] value = "null" -> 2

\* stringify(value).length
CharLength(value) == IF value = "wide" THEN 4 ELSE ByteLength(value)

\* gzipSync(stringify(value)).toString("base64").length
GzipLength(value) ==
    CASE value = "tiny" -> 5
      [] value = "four" -> 3
      [] value = "big" -> 3
      [] value = "noise" -> 8
      [] value = "wide" -> 5
      [] value = "huge" -> 4
      [] value = "null" -> 5

Plain(value) == [form |-> "json", value |-> value]

Gzipped(value) == [form |-> "gzip", value |-> value]

\* a payload cut short: neither gunzipSync nor parse accepts it
Truncated(value) == [form |-> "truncated", value |-> value]

\* a serialize without the maxFileSize test
serializeNoLimit(value, c) ==
    IF c.enableCompression
            /\ ByteLength(value) > c.compressionThreshold
            /\ GzipLength(value) < CharLength(value)
    THEN [ok |-> TRUE, data |-> Gzipped(value), compressed |-> TRUE,
          size |-> GzipLength(value)]
    ELSE [ok |-> TRUE, data |-> Plain(value), compressed |-> FALSE,
          size |-> ByteLength(value)]

\* a serialize that reports compressed data as uncompressed
serializeFlagOff(value, c) ==
    IF ByteLength(value) > c.maxFileSize
    THEN [ok |-> FALSE, data |-> Plain(value), compressed |-> FALSE, size |-> 0]
    ELSE IF c.enableCompression
            /\ ByteLength(value) > c.compressionThreshold
            /\ GzipLength(value) < CharLength(value)
    THEN [ok |-> TRUE, data |-> Gzipped(value), compressed |-> FALSE,
          size |-> GzipLength(value)]
    ELSE [ok |-> TRUE, data |-> Plain(value), compressed |-> FALSE,
          size |-> ByteLength(value)]

\* a serialize that adopts the compressed form whatever its length
serializeNotSmaller(value, c) ==
    IF ByteLength(value) > c.maxFileSize
    THEN [ok |-> FALSE, data |-> Plain(value), compressed |-> FALSE, size |-> 0]
    ELSE IF c.enableCompression
            /\ ByteLength(value) > c.compressionThreshold
    THEN [ok |-> TRUE, data |-> Gzipped(value), compressed |-> TRUE,
          size |-> GzipLength(value)]
    ELSE [ok |-> TRUE, data |-> Plain(value), compressed |-> FALSE,
          size |-> ByteLength(value)]

\* a serialize that compresses from the threshold on
serializeAtThreshold(value, c) ==
    IF ByteLength(value) > c.maxFileSize
    THEN [ok |-> FALSE, data |-> Plain(value), compressed |-> FALSE, size |-> 0]
    ELSE IF c.enableCompression
            /\ ByteLength(value) >= c.compressionThreshold
            /\ GzipLength(value) < CharLength(value)
    THEN [ok |-> TRUE, data |-> Gzipped(value), compressed |-> TRUE,
          size |-> GzipLength(value)]
    ELSE [ok |-> TRUE, data |-> Plain(value), compressed |-> FALSE,
          size |-> ByteLength(value)]

\* CacheBox.serialize; ok = FALSE when it throws
serialize(value, c) ==
    IF ByteLength(value) > c.maxFileSize
    THEN [ok |-> FALSE, data |-> Plain(value), compressed |-> FALSE, size |-> 0]
    ELSE IF c.enableCompression
            /\ ByteLength(value) > c.compressionThreshold
            /\ GzipLength(value) < CharLength(value)
    THEN [ok |-> TRUE, data |-> Gzipped(value), compressed |-> TRUE,
          size |-> GzipLength(value)]
    ELSE [ok |-> TRUE, data |-> Plain(value), compressed |-> FALSE,
          size |-> ByteLength(value)]

\* CacheBox.deserialize; ok = FALSE when it throws: gunzipSync rejects what is
\* not gzip data, and parse rejects base64 text
deserialize(data, compressed) ==
    IF compressed
    THEN [ok |-> data.form = "gzip", value |-> data.value]
    ELSE [ok |-> data.form = "json", value |-> data.value]

\* stats.size of a file holding data
FileSize(data) ==
    IF data.form = "gzip" THEN GzipLength(data.value) ELSE ByteLength(data.value)

---------------------------------------------------------------------------
(* The Map _cache, as the sequence of its entries in insertion order *)

CacheKeys(c) == {c[i].key : i \in 1..Len(c)}

\* Map.prototype.has
CacheHas(c, key) == key \in CacheKeys(c)

\* Map.prototype.get, for a key the Map has
CacheGet(c, key) == c[CHOOSE i \in 1..Len(c) : c[i].key = key]

\* Map.prototype.delete
CacheDelete(c, key) == SelectSeq(c, LAMBDA e : e.key # key)

\* Map.prototype.set: an existing key keeps its place, a new key goes last
CacheSet(c, entry) ==
    IF CacheHas(c, entry.key)
    THEN [i \in 1..Len(c) |-> IF c[i].key = entry.key THEN entry ELSE c[i]]
    ELSE Append(c, entry)

---------------------------------------------------------------------------
(* The cache directory *)

\* existsSync
existsSync(d, fileName) == fileName \in DOMAIN d

\* rmSync of a file that exists
rmSync(d, fileName) == [f \in DOMAIN d \ {fileName} |-> d[f]]

\* the removal of a file that exists fails (EPERM): rmSync throws and rm
\* rejects.  Such a file can still be read and written.
rmFails(d, fileName) == d[fileName].locked

\* writeFileSync: creates the file or replaces its contents
writeFileSync(d, fileName, data, t) ==
    [f \in DOMAIN d \cup {fileName} |->
        IF f = fileName
        THEN [data |-> data, mtime |-> t,
              locked |-> IF f \in DOMAIN d THEN d[f].locked ELSE FALSE]
        ELSE d[f]]

---------------------------------------------------------------------------
(* The engine.  An operation takes the engine state                        *)
(* m = [cache, disk, stats, subscribed, events] and gives back the state it *)
(* leaves and the value it returns.  events collects what the call emits.  *)

\* _stats as the constructor and resetStats set it
ZeroStats == [hits |-> 0, misses |-> 0, sets |-> 0, deletes |-> 0, errors |-> 0]

\* this._stats.<counter>++
count(m, counter) == [m EXCEPT !.stats[counter] = @ + 1]

\* EventEmitter.emit
emit(m, event) == [m EXCEPT !.events = Append(@, event)]

\* a key that is given, and the key of an error that has none
Some(key) == <<key>>

NoKey == <<>>

\* new CacheError(message, operation, key)
CacheError(operation, key) ==
    [type |-> "error", isCacheError |-> TRUE, operation |-> operation, key |-> key]

\* new Error(message)
PlainError ==
    [type |-> "error", isCacheError |-> FALSE, operation |-> "", key |-> NoKey]

\* CacheBox.emitError: a CacheError is passed on as it is, any other error is
\* wrapped with the operation and key of the caller
emitError(m, operation, key, error) ==
    LET cacheError == IF error.isCacheError THEN error
                      ELSE CacheError(operation, key)
        m1 == count(m, "errors")
    IN  IF m.subscribed THEN emit(m1, cacheError) ELSE m1

\* the payloads of "change", "expire", "clear" and "cleanup"
ChangeEvent(operation, key) ==
    [type |-> "change", operation |-> operation, key |-> key]

ChangeValueEvent(operation, key, value) ==
    [type |-> "change", operation |-> operation, key |-> key, value |-> value]

ExpireEvent(key, ttl) == [type |-> "expire", key |-> key, ttl |-> ttl]

ClearEvent(entriesRemoved) == [type |-> "clear", entriesRemoved |-> entriesRemoved]

CleanupEvent(expired, removed) ==
    [type |-> "cleanup", expired |-> expired, removed |-> removed]


\* an expiry test that counts the expiry time itself as expired
isExpiredInclusive(ttl, t) == ttl # 0 /\ ttl <= t

\* an expiry test without the exemption of 0
isExpiredZeroToo(ttl, t) == ttl < t

\* entry.ttl !== 0 && entry.ttl < Date.now()
\* (has; the same test is made by get, getAsync, performCleanup and
\* syncMemoryCache)
isExpired(ttl, t) == ttl # 0 /\ ttl < t

\* a delete that leaves the file where it is
deleteKeepFile(m, key) ==
    IF ~validateKey(key) THEN [m |-> m, ret |-> "false"]
    ELSE IF ~CacheHas(m.cache, key) THEN [m |-> m, ret |-> "true"]
    ELSE [m |-> emit(count([m EXCEPT !.cache = CacheDelete(m.cache, key)], "deletes"),
                     ChangeEvent("delete", key)),
          ret |-> "true"]

\* a delete that removes the file without asking whether it is there: the
\* rmSync of a missing file throws
deleteNeedsFile(m, key) ==
    IF ~validateKey(key) THEN [m |-> m, ret |-> "false"]
    ELSE IF ~CacheHas(m.cache, key) THEN [m |-> m, ret |-> "true"]
    ELSE LET entry == CacheGet(m.cache, key)
             fileName == generateFileName(key, entry.ttl, entry.compressed)
         IN  IF ~existsSync(m.disk, fileName)
             THEN [m |-> emitError(m, "delete", Some(key), PlainError),
                   ret |-> "false"]
             ELSE [m |-> emit(count([m EXCEPT
                                       !.disk = rmSync(m.disk, fileName),
                                       !.cache = CacheDelete(m.cache, key)],
                                    "deletes"),
                              ChangeEvent("delete", key)),
                   ret |-> "true"]

\* CacheBox.delete; when rmSync throws, the catch reports the error and the
\* Index keeps the entry
delete(m, key) ==
    IF ~validateKey(key) THEN [m |-> m, ret |-> "false"]
    ELSE IF ~CacheHas(m.cache, key) THEN [m |-> m, ret |-> "true"]
    ELSE LET entry == CacheGet(m.cache, key)
             fileName == generateFileName(key, entry.ttl, entry.compressed)
         IN  IF existsSync(m.disk, fileName) /\ rmFails(m.disk, fileName)
             THEN [m |-> emitError(m, "delete", Some(key), PlainError),
                   ret |-> "false"]
             ELSE [m |-> emit(count([m EXCEPT
                                 !.disk = IF existsSync(m.disk, fileName)
                                          THEN rmSync(m.disk, fileName) ELSE m.disk,
                                 !.cache = CacheDelete(m.cache, key)],
                              "deletes"),
                        ChangeEvent("delete", key)),
                   ret |-> "true"]

\* an expire pass that stops at the first entry that has not expired
RECURSIVE expirePassStopsEarly(_, _, _)
expirePassStopsEarly(r, entries, t) ==
    IF entries = <<>> \/ ~isExpired(Head(entries).ttl, t) THEN r
    ELSE LET e == Head(entries)
         IN expirePassStopsEarly(
                [m |-> emit(delete(r.m, e.key).m, ExpireEvent(e.key, e.ttl)),
                 expired |-> r.expired + 1],
                Tail(entries), t)

\* an expire pass that takes the entries out of the Index and leaves their
\* files
RECURSIVE expirePassKeepsFile(_, _, _)
expirePassKeepsFile(r, entries, t) ==
    IF entries = <<>> THEN r
    ELSE LET e == Head(entries)
         IN expirePassKeepsFile(
                IF isExpired(e.ttl, t)
                THEN [m |-> emit(deleteKeepFile(r.m, e.key).m,
                                 ExpireEvent(e.key, e.ttl)),
                      expired |-> r.expired + 1]
                ELSE r,
                Tail(entries), t)

\* the loop of performCleanup over the entries that have expired
RECURSIVE expirePass(_, _, _)
expirePass(r, entries, t) ==
    IF entries = <<>> THEN r
    ELSE LET e == Head(entries)
         IN expirePass(
                IF isExpired(e.ttl, t)
                THEN [m |-> emit(delete(r.m, e.key).m, ExpireEvent(e.key, e.ttl)),
                      expired |-> r.expired + 1]
                ELSE r,
                Tail(entries), t)

\* a sort by access time that puts the later inserted of two entries with
\* equal access times first
RECURSIVE sortByAccessedTiesLast(_)
sortByAccessedTiesLast(entries) ==
    IF entries = <<>> THEN <<>>
    ELSE LET i == CHOOSE i \in 1..Len(entries) :
                      \A j \in 1..Len(entries) :
                          \/ entries[i].accessed < entries[j].accessed
                          \/ entries[i].accessed = entries[j].accessed /\ i >= j
         IN <<entries[i]>> \o
            sortByAccessedTiesLast(SubSeq(entries, 1, i - 1)
                                   \o SubSeq(entries, i + 1, Len(entries)))

\* Array.prototype.sort by a.accessed - b.accessed: stable, so entries with
\* equal access times stay in insertion order
RECURSIVE sortByAccessed(_)
sortByAccessed(entries) ==
    IF entries = <<>> THEN <<>>
    ELSE LET i == CHOOSE i \in 1..Len(entries) :
                      \A j \in 1..Len(entries) :
                          \/ entries[i].accessed < entries[j].accessed
                          \/ entries[i].accessed = entries[j].accessed /\ i <= j
         IN <<entries[i]>> \o
            sortByAccessed(SubSeq(entries, 1, i - 1) \o SubSeq(entries, i + 1, Len(entries)))

\* the loop of performCleanup over the entries to evict
RECURSIVE evictPass(_, _)
evictPass(r, toRemove) ==
    IF toRemove = <<>> THEN r
    ELSE evictPass([m |-> delete(r.m, Head(toRemove).key).m,
                    expired |-> r.expired,
                    removed |-> r.removed + 1],
                   Tail(toRemove))

\* the end of performCleanup: the summary is emitted when something was removed
cleanupSummary(r) ==
    IF r.expired > 0 \/ r.removed > 0
    THEN [r EXCEPT !.m = emit(r.m, CleanupEvent(r.expired, r.removed))]
    ELSE r

\* a performCleanup that evicts one entry too few
performCleanupKeepsOneMore(m, t, c) ==
    LET r1 == expirePass([m |-> m, expired |-> 0], m.cache, t)
        size == Len(r1.m.cache)
    IN  cleanupSummary(
            IF c.maxSize # 0 /\ size > c.maxSize
            THEN evictPass([m |-> r1.m, expired |-> r1.expired, removed |-> 0],
                           SubSeq(sortByAccessed(r1.m.cache), 1, size - c.maxSize - 1))
            ELSE [m |-> r1.m, expired |-> r1.expired, removed |-> 0])

\* CacheBox.performCleanup
performCleanup(m, t, c) ==
    LET r1 == expirePass([m |-> m, expired |-> 0], m.cache, t)
        size == Len(r1.m.cache)
    IN  cleanupSummary(
            IF c.maxSize # 0 /\ size > c.maxSize
            THEN evictPass([m |-> r1.m, expired |-> r1.expired, removed |-> 0],
                           SubSeq(sortByAccessed(r1.m.cache), 1, size - c.maxSize))
            ELSE [m |-> r1.m, expired |-> r1.expired, removed |-> 0])

\* CacheBox.has
has(m, key, t) ==
    IF ~validateKey(key)
    THEN [m |-> emitError(m, "has", Some(key), PlainError), ret |-> "false"]
    ELSE IF ~CacheHas(m.cache, key) THEN [m |-> m, ret |-> "false"]
    ELSE IF isExpired(CacheGet(m.cache, key).ttl, t)
         THEN [m |-> delete(m, key).m, ret |-> "false"]
         ELSE [m |-> m, ret |-> "true"]

\* a get that counts nothing when the Index does not list the key
getMissUncounted(m, key, t) ==
    IF ~validateKey(key)
    THEN [m |-> emitError(m, "get", Some(key), PlainError), ret |-> "null"]
    ELSE IF ~CacheHas(m.cache, key) THEN [m |-> m, ret |-> "null"]
    ELSE LET entry == CacheGet(m.cache, key)
             fileName == generateFileName(key, entry.ttl, entry.compressed)
         IN  IF isExpired(entry.ttl, t)
             THEN [m |-> count(delete(m, key).m, "misses"), ret |-> "null"]
             ELSE IF ~existsSync(m.disk, fileName)
             THEN [m |-> count([m EXCEPT !.cache = CacheDelete(m.cache, key)],
                               "misses"),
                   ret |-> "null"]
             ELSE LET result == deserialize(m.disk[fileName].data, entry.compressed)
                  IN  IF ~result.ok
                      THEN [m |-> count(emitError(m, "get", Some(key),
                                                  CacheError("deserialize", NoKey)),
                                        "misses"),
                            ret |-> "null"]
                      ELSE [m |-> count([m EXCEPT !.cache =
                                           CacheSet(m.cache,
                                                    [entry EXCEPT !.accessed = t])],
                                        "hits"),
                            ret |-> result.value]

\* a get that reads the file without asking whether it is there: the
\* readFileSync of a missing file throws
getNeedsFile(m, key, t) ==
    IF ~validateKey(key)
    THEN [m |-> emitError(m, "get", Some(key), PlainError), ret |-> "null"]
    ELSE IF ~CacheHas(m.cache, key) THEN [m |-> count(m, "misses"), ret |-> "null"]
    ELSE LET entry == CacheGet(m.cache, key)
             fileName == generateFileName(key, entry.ttl, entry.compressed)
         IN  IF isExpired(entry.ttl, t)
             THEN [m |-> count(delete(m, key).m, "misses"), ret |-> "null"]
             ELSE IF ~existsSync(m.disk, fileName)
             THEN [m |-> count(emitError(m, "get", Some(key), PlainError), "misses"),
                   ret |-> "null"]
             ELSE LET result == deserialize(m.disk[fileName].data, entry.compressed)
                  IN  IF ~result.ok
                      THEN [m |-> count(emitError(m, "get", Some(key),
                                                  CacheError("deserialize", NoKey)),
                                        "misses"),
                            ret |-> "null"]
                      ELSE [m |-> count([m EXCEPT !.cache =
                                           CacheSet(m.cache,
                                                    [entry EXCEPT !.accessed = t])],
                                        "hits"),
                            ret |-> result.value]

\* a get that drops the Index entry of a file it cannot deserialize
getPurgesUnreadable(m, key, t) ==
    IF ~validateKey(key)
    THEN [m |-> emitError(m, "get", Some(key), PlainError), ret |-> "null"]
    ELSE IF ~CacheHas(m.cache, key) THEN [m |-> count(m, "misses"), ret |-> "null"]
    ELSE LET entry == CacheGet(m.cache, key)
             fileName == generateFileName(key, entry.ttl, entry.compressed)
         IN  IF isExpired(entry.ttl, t)
             THEN [m |-> count(delete(m, key).m, "misses"), ret |-> "null"]
             ELSE IF ~existsSync(m.disk, fileName)
             THEN [m |-> count([m EXCEPT !.cache = CacheDelete(m.cache, key)],
                               "misses"),
                   ret |-> "null"]
             ELSE LET result == deserialize(m.disk[fileName].data, entry.compressed)
                  IN  IF ~result.ok
                      THEN [m |-> count(emitError([m EXCEPT !.cache =
                                                      CacheDelete(m.cache, key)],
                                                  "get", Some(key),
                                                  CacheError("deserialize", NoKey)),
                                        "misses"),
                            ret |-> "null"]
                      ELSE [m |-> count([m EXCEPT !.cache =
                                           CacheSet(m.cache,
                                                    [entry EXCEPT !.accessed = t])],
                                        "hits"),
                            ret |-> result.value]

\* CacheBox.get; a stored null is returned as "null", as a miss is
get(m, key, t) ==
    IF ~validateKey(key)
    THEN [m |-> emitError(m, "get", Some(key), PlainError), ret |-> "null"]
    ELSE IF ~CacheHas(m.cache, key) THEN [m |-> count(m, "misses"), ret |-> "null"]
    ELSE LET entry == CacheGet(m.cache, key)
             fileName == generateFileName(key, entry.ttl, entry.compressed)
         IN  IF isExpired(entry.ttl, t)
             THEN [m |-> count(delete(m, key).m, "misses"), ret |-> "null"]
             ELSE IF ~existsSync(m.disk, fileName)
             THEN [m |-> count([m EXCEPT !.cache = CacheDelete(m.cache, key)],
                               "misses"),
                   ret |-> "null"]
             ELSE LET result == deserialize(m.disk[fileName].data, entry.compressed)
                  IN  IF ~result.ok
                      THEN [m |-> count(emitError(m, "get", Some(key),
                                                  CacheError("deserialize", NoKey)),
                                        "misses"),
                            ret |-> "null"]
                      ELSE [m |-> count([m EXCEPT !.cache =
                                           CacheSet(m.cache,
                                                    [entry EXCEPT !.accessed = t])],
                                        "hits"),
                            ret |-> result.value]

\* CacheBox.get when readFileSync throws on the file it has found
getReadFails(m, key, t) ==
    IF ~validateKey(key) \/ ~CacheHas(m.cache, key) THEN get(m, key, t)
    ELSE LET entry == CacheGet(m.cache, key)
             fileName == generateFileName(key, entry.ttl, entry.compressed)
         IN  IF isExpired(entry.ttl, t) \/ ~existsSync(m.disk, fileName)
             THEN get(m, key, t)
             ELSE [m |-> count(emitError(m, "get", Some(key), PlainError), "misses"),
                   ret |-> "null"]

\* ttl ?? this._defaultTTL; an omitted ttl is the empty tuple
effectiveTTL(ttl, c) == IF ttl = <<>> THEN c.defaultTTL ELSE ttl[1]

\* CacheBox.set
set(m, key, value, ttl, t, c) ==
    IF ~validateKey(key)
    THEN [m |-> emitError(m, "set", Some(key), PlainError), ret |-> "false"]
    ELSE LET fileTtl == IF effectiveTTL(ttl, c) = 0 THEN 0
                        ELSE t + effectiveTTL(ttl, c)
             s == serialize(value, c)
             fileName == generateFileName(key, fileTtl, s.compressed)
             m1 == IF CacheHas(m.cache, key) THEN delete(m, key).m ELSE m
             m2 == emit(count([m1 EXCEPT
                                 !.disk = writeFileSync(m1.disk, fileName, s.data, t),
                                 !.cache = CacheSet(m1.cache,
                                     [key |-> key, ttl |-> fileTtl,
                                      compressed |-> s.compressed, size |-> s.size,
                                      created |-> t, accessed |-> t])],
                              "sets"),
                        ChangeValueEvent("set", key, value))
         IN  IF ~s.ok
             THEN [m |-> emitError(m, "set", Some(key), CacheError("serialize", NoKey)),
                   ret |-> "false"]
             ELSE IF c.maxSize # 0 /\ Len(m2.cache) > c.maxSize
             THEN [m |-> performCleanup(m2, t, c).m, ret |-> "true"]
             ELSE [m |-> m2, ret |-> "true"]

\* CacheBox.set when writeFileSync throws
setWriteFails(m, key, value, ttl, t, c) ==
    IF ~validateKey(key) \/ ~serialize(value, c).ok THEN set(m, key, value, ttl, t, c)
    ELSE LET m1 == IF CacheHas(m.cache, key) THEN delete(m, key).m ELSE m
         IN  [m |-> emitError(m1, "set", Some(key), PlainError), ret |-> "false"]

\* the files.forEach of clear: rmSync of each file of the listing in turn; the
\* rmSync of the file at failAt throws (failAt = 0: none does), and so does
\* the rmSync of a file whose removal fails
RECURSIVE rmFiles(_, _, _)
rmFiles(d, files, failAt) ==
    IF files = <<>> THEN [disk |-> d, ok |-> TRUE]
    ELSE IF failAt = 1 \/ rmFails(d, Head(files)) THEN [disk |-> d, ok |-> FALSE]
    ELSE rmFiles(rmSync(d, Head(files)), Tail(files),
                 IF failAt = 0 THEN 0 ELSE failAt - 1)

\* a clear that counts the entries once the Index has been emptied
clearCountsAfter(m, files, failAt) ==
    LET removal == rmFiles(m.disk, files, failAt)
        m1 == [m EXCEPT !.disk = removal.disk]
    IN  IF ~removal.ok
        THEN [m |-> emitError(m1, "clear", NoKey, PlainError), ret |-> "false"]
        ELSE [m |-> emit([m1 EXCEPT !.cache = <<>>], ClearEvent(0)),
              ret |-> "true"]

\* CacheBox.clear, files being what readdirSync lists
clear(m, files, failAt) ==
    LET removal == rmFiles(m.disk, files, failAt)
        m1 == [m EXCEPT !.disk = removal.disk]
    IN  IF ~removal.ok
        THEN [m |-> emitError(m1, "clear", NoKey, PlainError), ret |-> "false"]
        ELSE [m |-> emit([m1 EXCEPT !.cache = <<>>], ClearEvent(Len(m.cache))),
              ret |-> "true"]

\* CacheBox.cleanup
cleanup(m, t, c) ==
    LET r == performCleanup(m, t, c)
    IN [m |-> r.m, expired |-> 0, removed |-> Len(m.cache) - Len(r.m.cache)]

\* CacheBox.keys
keys(m, t) ==
    LET valid == SelectSeq(m.cache, LAMBDA e : e.ttl = 0 \/ e.ttl > t)
    IN [i \in 1..Len(valid) |-> valid[i].key]

\* the files.forEach of syncMemoryCache, over the listing readdirSync gave;
\* a file whose processing throws is skipped;
\* ctimeMs and atimeMs of a file are taken to be the time it was written
RECURSIVE syncFiles(_, _, _)
syncFiles(r, files, t) ==
    IF files = <<>> THEN r
    ELSE LET file == Head(files)
             parsed == parseFileName(file)
         IN syncFiles(
                IF ~parsed.ok THEN r
                ELSE IF isExpired(parsed.ttl, t)
                THEN IF rmFails(r.disk, file) THEN r
                     ELSE [r EXCEPT !.disk = rmSync(r.disk, file)]
                ELSE [r EXCEPT !.cache = CacheSet(r.cache,
                         [key |-> parsed.key, ttl |-> parsed.ttl,
                          compressed |-> parsed.compressed,
                          size |-> FileSize(r.disk[file].data),
                          created |-> r.disk[file].mtime,
                          accessed |-> r.disk[file].mtime])],
                Tail(files), t)

\* CacheBox.syncMemoryCache
syncMemoryCache(d, files, t) == syncFiles([cache |-> <<>>, disk |-> d], files, t)

\* private _cleanupInterval = 5 * 60 * 1000
DefaultCleanupInterval == 300000

\* the constructor's handling of the options cleanupInterval and
\* enableAutoCleanup, an option that is not given being <<>>: fields are the
\* fields as declared, and "if (options?.cleanupInterval)" passes over a
\* cleanupInterval of 0 as it does over one that is not given
applyOptions(fields, options) ==
    [fields EXCEPT
       !.cleanupInterval =
           IF options.cleanupInterval # <<>> /\ options.cleanupInterval[1] # 0
           THEN options.cleanupInterval[1] ELSE @,
       !.enableAutoCleanup =
           IF options.enableAutoCleanup # <<>>
           THEN options.enableAutoCleanup[1] ELSE @]

\* a close that removes the listeners and leaves the timer running
closeKeepsTimer(m, t) == [m |-> [m EXCEPT !.subscribed = FALSE], timer |-> t]

\* CacheBox.close, t telling whether the engine holds a timer: clearInterval
\* and removeAllListeners
close(m, t) == [m |-> [m EXCEPT !.subscribed = FALSE], timer |-> FALSE]

\* CacheBox.startAutoCleanup: whether setInterval is called
startAutoCleanup(c) == c.enableAutoCleanup /\ c.cleanupInterval > 0

\* the constructor and CacheBox.load on the directory d, which exists; files
\* is what readdirSync lists, and readable = FALSE when readdirSync throws.
\* A new instance has no subscriber; load catches the error of
\* syncMemoryCache and reports it, and the constructor returns.  The "ready"
\* event of the next tick is left out.
load(d, files, t, c, readable) ==
    LET fresh == [cache |-> <<>>, disk |-> d, stats |-> ZeroStats,
                  subscribed |-> FALSE, events |-> <<>>]
        r == syncMemoryCache(d, files, t)
    IN  IF readable
        THEN [m |-> [fresh EXCEPT !.cache = r.cache, !.disk = r.disk],
              timer |-> startAutoCleanup(c), ret |-> "instance"]
        ELSE [m |-> emitError(fresh, "initialization", NoKey,
                              CacheError("sync", NoKey)),
              timer |-> FALSE, ret |-> "instance"]

\* CacheBox.size
size(m) == Len(m.cache)

\* hits / (hits + misses) of stats(), as <<numerator, denominator>>
hitRate(st) ==
    IF st.hits + st.misses > 0 THEN <<st.hits, st.hits + st.misses>> ELSE <<0, 1>>

\* the performance part of CacheBox.stats
performance(m) ==
    [hits |-> m.stats.hits, misses |-> m.stats.misses,
     hitRate |-> hitRate(m.stats), sets |-> m.stats.sets,
     deletes |-> m.stats.deletes, errors |-> m.stats.errors]

\* CacheBox.compressionStats; compressionRatio as <<numerator, denominator>>,
\* the compression level left out
compressionStats(m, c) ==
    LET compressed == Len(SelectSeq(m.cache, LAMBDA e : e.compressed))
        total == Len(m.cache)
    IN [totalEntries |-> total,
        compressedEntries |-> compressed,
        uncompressedEntries |-> total - compressed,
        compressionRatio |-> IF total > 0 THEN <<compressed, total>> ELSE <<0, 1>>,
        enabled |-> c.enableCompression,
        threshold |-> c.compressionThreshold]

\* a resetStats that leaves the error counter as it is
resetStatsKeepsErrors(m) ==
    [m EXCEPT !.stats = [ZeroStats EXCEPT !.errors = m.stats.errors]]

\* CacheBox.resetStats
resetStats(m) == [m EXCEPT !.stats = ZeroStats]

\* " entries"
EntriesWord == <<32, 101, 110, 116, 114, 105, 101, 115>>

\* the number of elements of a sequence that are equal to x
RECURSIVE Occurrences(_, _)
Occurrences(seq, x) ==
    IF seq = <<>> THEN 0
    ELSE (IF Head(seq) = x THEN 1 ELSE 0) + Occurrences(Tail(seq), x)

\* the for loop of setMany
RECURSIVE setEach(_, _, _, _)
setEach(r, entries, t, c) ==
    IF entries = <<>> THEN r
    ELSE LET e == Head(entries)
             one == set(r.m, e.key, e.value, e.ttl, t, c)
         IN setEach([m |-> one.m, results |-> Append(r.results, one.ret)],
                    Tail(entries), t, c)

\* CacheBox.setMany
setMany(m, entries, t, c) ==
    LET r == setEach([m |-> m, results |-> <<>>], entries, t, c)
    IN [m |-> emit(r.m, ChangeEvent("setMany", NumToStr(Len(entries)) \o EntriesWord)),
        success |-> Occurrences(r.results, "true"),
        failed |-> Occurrences(r.results, "false"),
        results |-> r.results]

\* CacheBox.getMany
RECURSIVE getMany(_, _, _)
getMany(m, ks, t) ==
    IF ks = <<>> THEN [m |-> m, records |-> <<>>]
    ELSE LET one == get(m, Head(ks), t)
             rest == getMany(one.m, Tail(ks), t)
         IN [m |-> rest.m,
             records |-> <<[key |-> Head(ks), value |-> one.ret,
                            found |-> one.ret # "null"]>> \o rest.records]

---------------------------------------------------------------------------
(* The asynchronous variants, each run to completion with nothing else     *)
(* running between its steps                                               *)

\* CacheBox.deleteAsync: rm's rejection, the file being gone or its removal
\* failing, is swallowed
deleteAsync(m, key) ==
    IF ~validateKey(key) THEN [m |-> m, ret |-> "false"]
    ELSE IF ~CacheHas(m.cache, key) THEN [m |-> m, ret |-> "true"]
    ELSE LET entry == CacheGet(m.cache, key)
             fileName == generateFileName(key, entry.ttl, entry.compressed)
         IN [m |-> emit(count([m EXCEPT
                                 !.disk = IF existsSync(m.disk, fileName)
                                             /\ ~rmFails(m.disk, fileName)
                                          THEN rmSync(m.disk, fileName) ELSE m.disk,
                                 !.cache = CacheDelete(m.cache, key)],
                              "deletes"),
                        ChangeEvent("deleteAsync", key)),
             ret |-> "true"]

\* CacheBox.getAsync
getAsync(m, key, t) ==
    IF ~validateKey(key)
    THEN [m |-> emitError(m, "getAsync", Some(key), PlainError), ret |-> "null"]
    ELSE IF ~CacheHas(m.cache, key) THEN [m |-> count(m, "misses"), ret |-> "null"]
    ELSE LET entry == CacheGet(m.cache, key)
             fileName == generateFileName(key, entry.ttl, entry.compressed)
         IN  IF isExpired(entry.ttl, t)
             THEN [m |-> count(deleteAsync(m, key).m, "misses"), ret |-> "null"]
             ELSE IF ~existsSync(m.disk, fileName)
             THEN [m |-> count([m EXCEPT !.cache = CacheDelete(m.cache, key)],
                               "misses"),
                   ret |-> "null"]
             ELSE LET result == deserialize(m.disk[fileName].data, entry.compressed)
                  IN  IF ~result.ok
                      THEN [m |-> count(emitError(m, "getAsync", Some(key),
                                                  CacheError("deserialize", NoKey)),
                                        "misses"),
                            ret |-> "null"]
                      ELSE [m |-> count([m EXCEPT !.cache =
                                           CacheSet(m.cache,
                                                    [entry EXCEPT !.accessed = t])],
                                        "hits"),
                            ret |-> result.value]

\* CacheBox.setAsync
setAsync(m, key, value, ttl, t, c) ==
    IF ~validateKey(key)
    THEN [m |-> emitError(m, "setAsync", Some(key), PlainError), ret |-> "false"]
    ELSE LET fileTtl == IF effectiveTTL(ttl, c) = 0 THEN 0
                        ELSE t + effectiveTTL(ttl, c)
             s == serialize(value, c)
             fileName == generateFileName(key, fileTtl, s.compressed)
             m1 == IF CacheHas(m.cache, key) THEN deleteAsync(m, key).m ELSE m
             m2 == emit(count([m1 EXCEPT
                                 !.disk = writeFileSync(m1.disk, fileName, s.data, t),
                                 !.cache = CacheSet(m1.cache,
                                     [key |-> key, ttl |-> fileTtl,
                                      compressed |-> s.compressed, size |-> s.size,
                                      created |-> t, accessed |-> t])],
                              "sets"),
                        ChangeValueEvent("setAsync", key, value))
         IN  IF ~s.ok
             THEN [m |-> emitError(m, "setAsync", Some(key),
                                   CacheError("serialize", NoKey)),
                   ret |-> "false"]
             ELSE IF c.maxSize # 0 /\ Len(m2.cache) > c.maxSize
             THEN [m |-> performCleanup(m2, t, c).m, ret |-> "true"]
             ELSE [m |-> m2, ret |-> "true"]

---------------------------------------------------------------------------
(* The asynchronous batches.  Promise.all starts every call of the list in  *)
(* list order, each running up to its first await; a call goes on when the  *)
(* file operation it awaits has completed, in whatever order the operations *)
(* complete.  A file operation takes effect when it completes, and the call *)
(* that awaited it runs on to its next await at once.  The clock stands     *)
(* still while a batch runs.                                                *)

\* a call of a batch: pc is the file operation the call awaits ("rm",
\* "write", "stat", "read") or "done", target the file that operation is on,
\* compressed the flag of the entry a getAsync has read, fileTtl the expiry a
\* setAsync has computed, io the outcome of the awaited file operation once
\* it has taken effect, ret what the call returns when it is done
Task(call, key, value, ttl) ==
    [call |-> call, key |-> key, value |-> value, ttl |-> ttl, pc |-> "done",
     target |-> <<>>, compressed |-> FALSE, fileTtl |-> 0, io |-> <<>>, ret |-> ""]

\* the file name setAsync writes for a task
TaskFile(task, t, c) ==
    generateFileName(task.key,
                     IF effectiveTTL(task.ttl, c) = 0 THEN 0
                     ELSE t + effectiveTTL(task.ttl, c),
                     serialize(task.value, c).compressed)

\* deleteAsync from the completion of its rm on, for a key that passed its
\* checks before the rm: a missing file and a failed removal are ignored, and
\* the key is deleted from the Index whatever entry it has by now
deleteAsyncResume(m, key, target) ==
    emit(count([m EXCEPT
                  !.disk = IF existsSync(m.disk, target) /\ ~rmFails(m.disk, target)
                           THEN rmSync(m.disk, target) ELSE m.disk,
                  !.cache = CacheDelete(m.cache, key)],
               "deletes"),
         ChangeEvent("deleteAsync", key))

\* setAsync up to its first await
setAsyncBegin(m, key, value, ttl, t, c) ==
    LET task == [Task("setAsync", key, value, ttl) EXCEPT
                   !.fileTtl = IF effectiveTTL(ttl, c) = 0 THEN 0
                               ELSE t + effectiveTTL(ttl, c)]
    IN  IF ~validateKey(key)
        THEN [m |-> emitError(m, "setAsync", Some(key), PlainError),
              task |-> [task EXCEPT !.ret = "false"]]
        ELSE IF ~serialize(value, c).ok
        THEN [m |-> emitError(m, "setAsync", Some(key),
                              CacheError("serialize", NoKey)),
              task |-> [task EXCEPT !.ret = "false"]]
        ELSE IF CacheHas(m.cache, key)
        THEN LET entry == CacheGet(m.cache, key)
             IN [m |-> m,
                 task |-> [task EXCEPT
                             !.pc = "rm",
                             !.target = generateFileName(key, entry.ttl,
                                                         entry.compressed)]]
        ELSE [m |-> m,
              task |-> [task EXCEPT !.pc = "write", !.target = TaskFile(task, t, c)]]

\* setAsync from the completion of the file operation it awaits to its next
\* await or its return
setAsyncResume(m, task, t, c) ==
    IF task.pc = "rm"
    THEN [m |-> deleteAsyncResume(m, task.key, task.target),
          task |-> [task EXCEPT !.pc = "write", !.target = TaskFile(task, t, c)]]
    ELSE LET s == serialize(task.value, c)
             fileTtl == IF effectiveTTL(task.ttl, c) = 0 THEN 0
                        ELSE t + effectiveTTL(task.ttl, c)
             m2 == emit(count([m EXCEPT
                                 !.disk = writeFileSync(m.disk, task.target, s.data, t),
                                 !.cache = CacheSet(m.cache,
                                     [key |-> task.key, ttl |-> fileTtl,
                                      compressed |-> s.compressed, size |-> s.size,
                                      created |-> t, accessed |-> t])],
                              "sets"),
                        ChangeValueEvent("setAsync", task.key, task.value))
         IN [m |-> IF c.maxSize # 0 /\ Len(m2.cache) > c.maxSize
                   THEN performCleanup(m2, t, c).m ELSE m2,
             task |-> [task EXCEPT !.pc = "done", !.ret = "true"]]

\* getAsync up to its first await
getAsyncBegin(m, key, t) ==
    LET task == Task("getAsync", key, "", <<>>)
    IN  IF ~validateKey(key)
        THEN [m |-> emitError(m, "getAsync", Some(key), PlainError),
              task |-> [task EXCEPT !.ret = "null"]]
        ELSE IF ~CacheHas(m.cache, key)
        THEN [m |-> count(m, "misses"), task |-> [task EXCEPT !.ret = "null"]]
        ELSE LET entry == CacheGet(m.cache, key)
                 fileName == generateFileName(key, entry.ttl, entry.compressed)
             IN [m |-> m,
                 task |-> [task EXCEPT
                             !.pc = IF isExpired(entry.ttl, t) THEN "rm" ELSE "stat",
                             !.target = fileName,
                             !.compressed = entry.compressed]]

\* getAsync from the completion of the file operation it awaits to its next
\* await or its return; the entry whose accessed it sets is the one it read
\* from the Index, which it is taken to be still if the key has one
getAsyncResume(m, task, t) ==
    IF task.pc = "rm"
    THEN [m |-> count(deleteAsyncResume(m, task.key, task.target), "misses"),
          task |-> [task EXCEPT !.pc = "done", !.ret = "null"]]
    ELSE IF task.pc = "stat"
    THEN IF existsSync(m.disk, task.target)
         THEN [m |-> m, task |-> [task EXCEPT !.pc = "read"]]
         ELSE [m |-> count([m EXCEPT !.cache = CacheDelete(m.cache, task.key)],
                           "misses"),
               task |-> [task EXCEPT !.pc = "done", !.ret = "null"]]
    ELSE IF ~existsSync(m.disk, task.target)
    THEN [m |-> count(emitError(m, "getAsync", Some(task.key), PlainError), "misses"),
          task |-> [task EXCEPT !.pc = "done", !.ret = "null"]]
    ELSE LET result == deserialize(m.disk[task.target].data, task.compressed)
         IN  IF ~result.ok
             THEN [m |-> count(emitError(m, "getAsync", Some(task.key),
                                         CacheError("deserialize", NoKey)),
                               "misses"),
                   task |-> [task EXCEPT !.pc = "done", !.ret = "null"]]
             ELSE [m |-> count(IF CacheHas(m.cache, task.key)
                               THEN [m EXCEPT !.cache =
                                       CacheSet(m.cache,
                                                [CacheGet(m.cache, task.key)
                                                   EXCEPT !.accessed = t])]
                               ELSE m,
                               "hits"),
                   task |-> [task EXCEPT !.pc = "done", !.ret = result.value]]

---------------------------------------------------------------------------
(* One asynchronous call step by step.  The file operation a call awaits   *)
(* takes effect in the directory at one moment and the call goes on at a   *)
(* later one, with the outcome the operation had; timers and other calls   *)
(* may run in between.                                                      *)

\* the outcome of the file operation task awaits, on the directory d at time
\* t: the directory it leaves, whether it succeeds, and what a read gives
fileOperation(d, task, t, c) ==
    IF task.pc = "rm"
    THEN IF existsSync(d, task.target) /\ ~rmFails(d, task.target)
         THEN [disk |-> rmSync(d, task.target), ok |-> TRUE, data |-> <<>>]
         ELSE [disk |-> d, ok |-> FALSE, data |-> <<>>]
    ELSE IF task.pc = "write"
    THEN [disk |-> writeFileSync(d, task.target, serialize(task.value, c).data, t),
          ok |-> TRUE, data |-> <<>>]
    ELSE IF existsSync(d, task.target)
         THEN [disk |-> d, ok |-> TRUE,
               data |-> IF task.pc = "read" THEN <<d[task.target].data>> ELSE <<>>]
         ELSE [disk |-> d, ok |-> FALSE, data |-> <<>>]

\* deleteAsync up to its await
deleteAsyncBegin(m, key) ==
    LET task == Task("deleteAsync", key, "", <<>>)
    IN  IF ~validateKey(key) THEN [m |-> m, task |-> [task EXCEPT !.ret = "false"]]
        ELSE IF ~CacheHas(m.cache, key)
        THEN [m |-> m, task |-> [task EXCEPT !.ret = "true"]]
        ELSE LET entry == CacheGet(m.cache, key)
             IN [m |-> m,
                 task |-> [task EXCEPT
                             !.pc = "rm",
                             !.target = generateFileName(key, entry.ttl,
                                                         entry.compressed)]]

\* deleteAsync after its rm, whose rejection is swallowed
deleteAsyncAfter(m, task, io) ==
    [m |-> emit(count([m EXCEPT !.cache = CacheDelete(m.cache, task.key)], "deletes"),
                ChangeEvent("deleteAsync", task.key)),
     task |-> [task EXCEPT !.pc = "done", !.ret = "true"]]

\* setAsync after the file operation it awaited, to its next await or its
\* return; the file name and the expiry are those computed before the first
\* await
setAsyncAfter(m, task, io, t, c) ==
    LET s == serialize(task.value, c)
    IN  IF task.pc = "rm"
        THEN [m |-> deleteAsyncAfter(m, task, io).m,
              task |-> [task EXCEPT
                          !.pc = "write",
                          !.target = generateFileName(task.key, task.fileTtl,
                                                      s.compressed)]]
        ELSE LET m2 == emit(count([m EXCEPT !.cache =
                                     CacheSet(m.cache,
                                         [key |-> task.key, ttl |-> task.fileTtl,
                                          compressed |-> s.compressed,
                                          size |-> s.size,
                                          created |-> t, accessed |-> t])],
                                  "sets"),
                            ChangeValueEvent("setAsync", task.key, task.value))
             IN [m |-> IF c.maxSize # 0 /\ Len(m2.cache) > c.maxSize
                       THEN performCleanup(m2, t, c).m ELSE m2,
                 task |-> [task EXCEPT !.pc = "done", !.ret = "true"]]

\* a getAsync that puts the entry it has read back into the Index
getAsyncAfterPutsBack(m, task, io, t) ==
    IF task.pc = "rm"
    THEN [m |-> count(deleteAsyncAfter(m, task, io).m, "misses"),
          task |-> [task EXCEPT !.pc = "done", !.ret = "null"]]
    ELSE IF task.pc = "stat"
    THEN IF io.ok
         THEN [m |-> m, task |-> [task EXCEPT !.pc = "read"]]
         ELSE [m |-> count([m EXCEPT !.cache = CacheDelete(m.cache, task.key)],
                           "misses"),
               task |-> [task EXCEPT !.pc = "done", !.ret = "null"]]
    ELSE IF ~io.ok
    THEN [m |-> count(emitError(m, "getAsync", Some(task.key), PlainError), "misses"),
          task |-> [task EXCEPT !.pc = "done", !.ret = "null"]]
    ELSE LET result == deserialize(io.data[1], task.compressed)
         IN  IF ~result.ok
             THEN [m |-> count(emitError(m, "getAsync", Some(task.key),
                                         CacheError("deserialize", NoKey)),
                               "misses"),
                   task |-> [task EXCEPT !.pc = "done", !.ret = "null"]]
             ELSE [m |-> count([m EXCEPT !.cache =
                                 CacheSet(m.cache,
                                     [key |-> task.key,
                                      ttl |-> parseFileName(task.target).ttl,
                                      compressed |-> task.compressed,
                                      size |-> FileSize(io.data[1]),
                                      created |-> t, accessed |-> t])],
                               "hits"),
                   task |-> [task EXCEPT !.pc = "done", !.ret = result.value]]

\* getAsync after the file operation it awaited, to its next await or its
\* return; entry.accessed is set on the entry object read before the first
\* await, which the Index holds unless the key has been removed since
getAsyncAfter(m, task, io, t) ==
    IF task.pc = "rm"
    THEN [m |-> count(deleteAsyncAfter(m, task, io).m, "misses"),
          task |-> [task EXCEPT !.pc = "done", !.ret = "null"]]
    ELSE IF task.pc = "stat"
    THEN IF io.ok
         THEN [m |-> m, task |-> [task EXCEPT !.pc = "read"]]
         ELSE [m |-> count([m EXCEPT !.cache = CacheDelete(m.cache, task.key)],
                           "misses"),
               task |-> [task EXCEPT !.pc = "done", !.ret = "null"]]
    ELSE IF ~io.ok
    THEN [m |-> count(emitError(m, "getAsync", Some(task.key), PlainError), "misses"),
          task |-> [task EXCEPT !.pc = "done", !.ret = "null"]]
    ELSE LET result == deserialize(io.data[1], task.compressed)
         IN  IF ~result.ok
             THEN [m |-> count(emitError(m, "getAsync", Some(task.key),
                                         CacheError("deserialize", NoKey)),
                               "misses"),
                   task |-> [task EXCEPT !.pc = "done", !.ret = "null"]]
             ELSE [m |-> count(IF CacheHas(m.cache, task.key)
                               THEN [m EXCEPT !.cache =
                                       CacheSet(m.cache,
                                                [CacheGet(m.cache, task.key)
                                                   EXCEPT !.accessed = t])]
                               ELSE m,
                               "hits"),
                   task |-> [task EXCEPT !.pc = "done", !.ret = result.value]]

\* entries.map of setManyAsync: the calls begin in list order
RECURSIVE setManyAsyncBegin(_, _, _, _)
setManyAsyncBegin(r, entries, t, c) ==
    IF entries = <<>> THEN r
    ELSE LET e == Head(entries)
             one == setAsyncBegin(r.m, e.key, e.value, e.ttl, t, c)
         IN setManyAsyncBegin([m |-> one.m, tasks |-> Append(r.tasks, one.task)],
                              Tail(entries), t, c)

\* keys.map of getManyAsync: the calls begin in list order
RECURSIVE getManyAsyncBegin(_, _, _)
getManyAsyncBegin(r, ks, t) ==
    IF ks = <<>> THEN r
    ELSE LET one == getAsyncBegin(r.m, Head(ks), t)
         IN getManyAsyncBegin([m |-> one.m, tasks |-> Append(r.tasks, one.task)],
                              Tail(ks), t)

\* what setManyAsync returns once Promise.all has resolved
setManyAsyncResult(tasks) ==
    LET results == [i \in 1..Len(tasks) |-> tasks[i].ret]
    IN [success |-> Occurrences(results, "true"),
        failed |-> Len(results) - Occurrences(results, "true"),
        results |-> results]

\* what getManyAsync returns once Promise.all has resolved
getManyAsyncResult(tasks) ==
    [i \in 1..Len(tasks) |->
        [key |-> tasks[i].key, value |-> tasks[i].ret,
         found |-> tasks[i].ret # "null"]]

---------------------------------------------------------------------------
(* Inputs *)

\* "a", "b", "c", "k_1"
KeyA == <<97>>
KeyB == <<98>>
KeyC == <<99>>
KeyK1 == <<107, 95, 49>>

\* "user:123", the key of the README's examples
KeyUser == <<117, 115, 101, 114, 58, 49, 50, 51>>

Keys == {KeyA, KeyK1}

\* the ttl argument of set: omitted, 0, or 1 ms
Ttls == {<<>>, <<0>>, <<1>>}

\* set(key, value, ttl): "tiny" is below the compression threshold, "big" is
\* above it and gzip shrinks it, "huge" is above maxFileSize
SetArgs ==
    ({KeyK1} \X {"tiny", "big"} \X Ttls)
    \cup ({KeyK1} \X {"huge"} \X {<<>>})
    \cup ({KeyA} \X {"big"} \X {<<1>>})

\* setAsync(key, value, ttl) and getAsync(key)
AsyncKeys == {KeyK1}
SetAsyncArgs == AsyncKeys \X {"tiny", "big", "huge"} \X {<<>>}

\* the private fields the constructor leaves; maxSize 0 is "no maxSize"
ConfigPlain ==
    [maxSize |-> 0, enableCompression |-> FALSE, compressionThreshold |-> 4,
     maxFileSize |-> 8, defaultTTL |-> 0,
     enableAutoCleanup |-> FALSE, cleanupInterval |-> 1]

ConfigGzip ==
    [maxSize |-> 0, enableCompression |-> TRUE, compressionThreshold |-> 4,
     maxFileSize |-> 8, defaultTTL |-> 1,
     enableAutoCleanup |-> FALSE, cleanupInterval |-> 1]

Configs == {ConfigPlain, ConfigGzip}

---------------------------------------------------------------------------
(* The state machine *)

\* the engine state a call starts from
M == [cache |-> cache, disk |-> disk, stats |-> stats, subscribed |-> subscribed,
      events |-> <<>>]

\* the engine state a call leaves
Commit(m) ==
    /\ cache' = m.cache
    /\ disk' = m.disk
    /\ stats' = m.stats

NoKeys == <<>>

\* before is the number of Index entries when the call was made,
\* filesBefore the number of files of the directory, and reset whether
\* resetStats has been called since
Call(op, key, value, ttl, ret, list, events) ==
    [op |-> op, key |-> key, value |-> value, ttl |-> ttl, ret |-> ret,
     list |-> list, events |-> events, before |-> Len(cache),
     filesBefore |-> Cardinality(DOMAIN disk), reset |-> FALSE]

ZeroTally == [gets |-> 0, sets |-> 0]

\* a get or getAsync was called with key
TallyGet(key) ==
    tally' = IF validateKey(key) THEN [tally EXCEPT !.gets = @ + 1] ELSE tally

\* a set or setAsync returned ret
TallySet(ret) ==
    tally' = IF ret = "true" THEN [tally EXCEPT !.sets = @ + 1] ELSE tally

\* no asynchronous batch is running; from is the Index and directory the
\* batch started on, args its list, events what its calls have emitted
Idle == [op |-> "", tasks |-> <<>>, args |-> <<>>,
         from |-> [cache |-> <<>>, disk |-> <<>>], events |-> <<>>]

Calm == inflight.op = ""

\* all orders in which readdirSync may list the files
Listings(d) ==
    {l \in [1..Cardinality(DOMAIN d) -> DOMAIN d] :
        \A i, j \in DOMAIN l : i # j => l[i] # l[j]}

\* a new instance on an empty directory
Start ==
    /\ cache = <<>>
    /\ disk = [f \in {} |-> 0]
    /\ stats = ZeroStats
    /\ subscribed = FALSE
    /\ timer = startAutoCleanup(cfg)
    /\ inflight = Idle
    /\ tally = ZeroTally
    /\ now = 1
    /\ last = Call("new", <<>>, "", <<>>, "instance", NoKeys, <<>>)

Init == cfg \in Configs /\ Start

Tick ==
    /\ now < MaxClock
    /\ now' = now + 1
    /\ UNCHANGED <<cfg, cache, disk, stats, subscribed, timer, inflight, tally, last>>

Has(key) ==
    LET r == has(M, key, now)
    IN  /\ Commit(r.m)
        /\ last' = Call("has", key, "", <<>>, r.ret, NoKeys, r.m.events)
        /\ UNCHANGED <<cfg, subscribed, timer, inflight, tally, now>>

Get(key) ==
    LET r == get(M, key, now)
    IN  /\ Commit(r.m)
        /\ last' = Call("get", key, "", <<>>, r.ret, NoKeys, r.m.events)
        /\ TallyGet(key)
        /\ UNCHANGED <<cfg, subscribed, timer, inflight, now>>

Set(key, value, ttl) ==
    LET r == set(M, key, value, ttl, now, cfg)
    IN  /\ Commit(r.m)
        /\ last' = Call("set", key, value, ttl, r.ret, NoKeys, r.m.events)
        /\ TallySet(r.ret)
        /\ UNCHANGED <<cfg, subscribed, timer, inflight, now>>

Delete(key) ==
    LET r == delete(M, key)
    IN  /\ Commit(r.m)
        /\ last' = Call("delete", key, "", <<>>, r.ret, NoKeys, r.m.events)
        /\ UNCHANGED <<cfg, subscribed, timer, inflight, tally, now>>

GetAsync(key) ==
    LET r == getAsync(M, key, now)
    IN  /\ Commit(r.m)
        /\ last' = Call("getAsync", key, "", <<>>, r.ret, NoKeys, r.m.events)
        /\ TallyGet(key)
        /\ UNCHANGED <<cfg, subscribed, timer, inflight, now>>

SetAsync(key, value, ttl) ==
    LET r == setAsync(M, key, value, ttl, now, cfg)
    IN  /\ Commit(r.m)
        /\ last' = Call("setAsync", key, value, ttl, r.ret, NoKeys, r.m.events)
        /\ TallySet(r.ret)
        /\ UNCHANGED <<cfg, subscribed, timer, inflight, now>>

DeleteAsync(key) ==
    LET r == deleteAsync(M, key)
    IN  /\ Commit(r.m)
        /\ last' = Call("deleteAsync", key, "", <<>>, r.ret, NoKeys, r.m.events)
        /\ UNCHANGED <<cfg, subscribed, timer, inflight, tally, now>>

\* clear(); with fails, the rmSync of one of the files throws
Clear(fails) ==
    \E files \in Listings(disk) :
        \E failAt \in (IF fails THEN 1..Len(files) ELSE {0}) :
            LET r == clear(M, files, failAt)
            IN  /\ Commit(r.m)
                /\ last' = Call("clear", <<>>, "", <<>>, r.ret, NoKeys, r.m.events)
                /\ UNCHANGED <<cfg, subscribed, timer, inflight, tally, now>>

\* cleanup(); list holds the object it returns
Cleanup ==
    LET r == cleanup(M, now, cfg)
    IN  /\ Commit(r.m)
        /\ last' = Call("cleanup", <<>>, "", <<>>, "",
                        <<[expired |-> r.expired, removed |-> r.removed]>>,
                        r.m.events)
        /\ UNCHANGED <<cfg, subscribed, timer, inflight, tally, now>>

KeysCall ==
    /\ last' = Call("keys", <<>>, "", <<>>, "", keys(M, now), <<>>)
    /\ UNCHANGED <<cfg, cache, disk, stats, subscribed, timer, inflight, tally, now>>

\* stats(): the performance part of what it returns
StatsCall ==
    /\ last' = Call("stats", <<>>, "", <<>>, "", <<performance(M)>>, <<>>)
    /\ UNCHANGED <<cfg, cache, disk, stats, subscribed, timer, inflight, tally, now>>

\* compressionStats()
CompressionStatsCall ==
    /\ last' = Call("compressionStats", <<>>, "", <<>>, "",
                    <<compressionStats(M, cfg)>>, <<>>)
    /\ UNCHANGED <<cfg, cache, disk, stats, subscribed, timer, inflight, tally, now>>

\* resetStats(); last stays the call made before it
ResetStats ==
    /\ Commit(resetStats(M))
    /\ tally' = ZeroTally
    /\ last' = [last EXCEPT !.reset = TRUE]
    /\ UNCHANGED <<cfg, subscribed, timer, inflight, now>>

\* on("error", listener)
Subscribe ==
    /\ ~subscribed
    /\ subscribed' = TRUE
    /\ UNCHANGED <<cfg, cache, disk, stats, timer, inflight, tally, now, last>>

\* the callback of setInterval
TimerFires ==
    /\ timer
    /\ Commit(performCleanup(M, now, cfg).m)
    /\ UNCHANGED <<cfg, subscribed, timer, inflight, tally, now, last>>

\* from now on the removal of a file of the directory fails
Lock(fileName) ==
    /\ fileName \in DOMAIN disk
    /\ ~disk[fileName].locked
    /\ disk' = [disk EXCEPT ![fileName].locked = TRUE]
    /\ UNCHANGED <<cfg, cache, stats, subscribed, timer, inflight, tally, now, last>>

\* generateFileName(key, ttl, compressed), as set and get call it
GenerateFileName(key, ttl, compressed) ==
    /\ last' = Call("generateFileName", key, "", <<ttl>>, "",
                    <<[compressed |-> compressed,
                       fileName |-> generateFileName(key, ttl, compressed)]>>, <<>>)
    /\ UNCHANGED <<cfg, cache, disk, stats, subscribed, timer, inflight, tally, now>>

\* parseFileName(file), as syncMemoryCache calls it on a name of the directory
ParseFileName ==
    /\ last.op = "generateFileName"
    /\ last' = [last EXCEPT !.op = "parseFileName",
                            !.list = Append(@, parseFileName(@[1].fileName))]
    /\ UNCHANGED <<cfg, cache, disk, stats, subscribed, timer, inflight, tally, now>>

\* a file of the directory is cut short by something else than the engine
Corrupt(fileName) ==
    /\ fileName \in DOMAIN disk
    /\ disk[fileName].data.form # "truncated"
    /\ disk' = [disk EXCEPT ![fileName].data = Truncated(@.value)]
    /\ UNCHANGED <<cfg, cache, stats, subscribed, timer, inflight, tally, now, last>>

\* get(key) while the files of the directory cannot be read
GetReadFails(key) ==
    LET r == getReadFails(M, key, now)
    IN  /\ Commit(r.m)
        /\ last' = Call("get", key, "", <<>>, r.ret, <<"EACCES">>, r.m.events)
        /\ TallyGet(key)
        /\ UNCHANGED <<cfg, subscribed, timer, inflight, now>>

\* set(key, value, ttl) while no file can be written to the directory
SetWriteFails(key, value, ttl) ==
    LET r == setWriteFails(M, key, value, ttl, now, cfg)
    IN  /\ Commit(r.m)
        /\ last' = Call("set", key, value, ttl, r.ret, <<"ENOSPC">>, r.m.events)
        /\ TallySet(r.ret)
        /\ UNCHANGED <<cfg, subscribed, timer, inflight, now>>

\* a file of the directory is removed by something else than the engine
Unlink(fileName) ==
    /\ fileName \in DOMAIN disk
    /\ disk' = rmSync(disk, fileName)
    /\ UNCHANGED <<cfg, cache, stats, subscribed, timer, inflight, tally, now, last>>

SetMany(entries) ==
    LET r == setMany(M, entries, now, cfg)
    IN  /\ Commit(r.m)
        /\ last' = Call("setMany", <<>>, "", <<>>, "",
                        <<[success |-> r.success, failed |-> r.failed,
                           results |-> r.results, entries |-> entries]>>,
                        r.m.events)
        /\ tally' = [tally EXCEPT !.sets = @ + r.success]
        /\ UNCHANGED <<cfg, subscribed, timer, inflight, now>>

GetMany(ks) ==
    LET r == getMany(M, ks, now)
    IN  /\ Commit(r.m)
        /\ tally' = [tally EXCEPT !.gets = @ + Len(SelectSeq(ks, validateKey))]
        /\ last' = Call("getMany", <<>>, "", <<>>, "", r.records, r.m.events)
        /\ UNCHANGED <<cfg, subscribed, timer, inflight, now>>

\* setManyAsync(entries) is called: every setAsync runs up to its first await
SetManyAsync(entries) ==
    LET r == setManyAsyncBegin([m |-> M, tasks |-> <<>>], entries, now, cfg)
    IN  /\ Calm
        /\ Commit(r.m)
        /\ inflight' = [op |-> "setManyAsync", tasks |-> r.tasks, args |-> entries,
                        from |-> [cache |-> cache, disk |-> disk],
                        events |-> r.m.events]
        /\ last' = Call("setManyAsync", <<>>, "", <<>>, "pending", NoKeys, <<>>)
        /\ UNCHANGED <<cfg, subscribed, timer, tally, now>>

\* getManyAsync(keys) is called: every getAsync runs up to its first await
GetManyAsync(ks) ==
    LET r == getManyAsyncBegin([m |-> M, tasks |-> <<>>], ks, now)
    IN  /\ Calm
        /\ Commit(r.m)
        /\ inflight' = [op |-> "getManyAsync", tasks |-> r.tasks, args |-> ks,
                        from |-> [cache |-> cache, disk |-> disk],
                        events |-> r.m.events]
        /\ last' = Call("getManyAsync", <<>>, "", <<>>, "pending", NoKeys, <<>>)
        /\ UNCHANGED <<cfg, subscribed, timer, tally, now>>

\* the file operation the i-th call of the batch awaits completes
Completes(i) ==
    /\ i \in 1..Len(inflight.tasks)
    /\ inflight.tasks[i].pc # "done"
    /\ LET task == inflight.tasks[i]
           r == IF task.call = "setAsync" THEN setAsyncResume(M, task, now, cfg)
                ELSE getAsyncResume(M, task, now)
       IN  /\ Commit(r.m)
           /\ inflight' = [inflight EXCEPT !.tasks[i] = r.task,
                                           !.events = @ \o r.m.events]
    /\ UNCHANGED <<cfg, subscribed, timer, tally, now, last>>

\* Promise.all resolves: the batch returns
Resolves ==
    /\ ~Calm
    /\ \A i \in 1..Len(inflight.tasks) : inflight.tasks[i].pc = "done"
    /\ IF inflight.op = "setManyAsync"
       THEN LET r == setManyAsyncResult(inflight.tasks)
            IN  /\ last' = [last EXCEPT
                              !.ret = "",
                              !.list = <<r @@ [entries |-> inflight.args]>>,
                              !.events = Append(inflight.events,
                                  ChangeEvent("setManyAsync",
                                      NumToStr(Len(inflight.args)) \o EntriesWord))]
                /\ tally' = [tally EXCEPT !.sets = @ + r.success]
       ELSE /\ last' = [last EXCEPT
                          !.ret = "",
                          !.list = getManyAsyncResult(inflight.tasks),
                          !.events = inflight.events]
            /\ tally' = [tally EXCEPT
                           !.gets = @ + Len(SelectSeq(inflight.args, validateKey))]
    /\ inflight' = Idle
    /\ UNCHANGED <<cfg, cache, disk, stats, subscribed, timer, now>>

\* new CacheBox(options) on the directory a previous instance left; with
\* readable = FALSE the directory cannot be listed
Restart(c, readable) ==
    \E files \in Listings(disk) :
        LET r == load(disk, files, now, c, readable)
        IN  /\ cfg' = c
            /\ Commit(r.m)
            /\ subscribed' = r.m.subscribed
            /\ timer' = r.timer
            /\ last' = Call("new", <<>>, "", <<>>, r.ret, NoKeys, r.m.events)
            /\ tally' = ZeroTally
            /\ UNCHANGED <<inflight, now>>

\* an asynchronous call is made and runs up to its first await; list holds
\* the file operation it awaits
Begins(op, key, value, ttl, r) ==
    /\ Calm
    /\ Commit(r.m)
    /\ inflight' = [Idle EXCEPT !.op = op, !.tasks = <<r.task>>,
                                !.events = r.m.events]
    /\ last' = Call(op, key, value, ttl, "pending", <<r.task.pc>>, <<>>)
    /\ UNCHANGED <<cfg, subscribed, timer, tally, now>>

GetAsyncBegins(key) ==
    Begins("getAsync", key, "", <<>>, getAsyncBegin(M, key, now))

SetAsyncBegins(key, value, ttl) ==
    Begins("setAsync", key, value, ttl, setAsyncBegin(M, key, value, ttl, now, cfg))

DeleteAsyncBegins(key) ==
    Begins("deleteAsync", key, "", <<>>, deleteAsyncBegin(M, key))

\* the file operation the call awaits takes effect
FileOperation ==
    /\ inflight.op \in {"getAsync", "setAsync", "deleteAsync"}
    /\ inflight.tasks[1].pc # "done"
    /\ inflight.tasks[1].io = <<>>
    /\ LET io == fileOperation(disk, inflight.tasks[1], now, cfg)
       IN  /\ disk' = io.disk
           /\ inflight' = [inflight EXCEPT !.tasks[1].io = <<io>>]
    /\ UNCHANGED <<cfg, cache, stats, subscribed, timer, tally, now, last>>

\* the call goes on after the file operation it awaited
Continues ==
    /\ inflight.op \in {"getAsync", "setAsync", "deleteAsync"}
    /\ inflight.tasks[1].io # <<>>
    /\ LET task == inflight.tasks[1]
           io == task.io[1]
           r == IF task.call = "getAsync" THEN getAsyncAfter(M, task, io, now)
                ELSE IF task.call = "setAsync"
                THEN setAsyncAfter(M, task, io, now, cfg)
                ELSE deleteAsyncAfter(M, task, io)
       IN  /\ Commit(r.m)
           /\ inflight' = [inflight EXCEPT !.tasks[1] = [r.task EXCEPT !.io = <<>>],
                                           !.events = @ \o r.m.events]
    /\ UNCHANGED <<cfg, subscribed, timer, tally, now, last>>

\* the promise of the call resolves
Returns ==
    /\ inflight.op \in {"getAsync", "setAsync", "deleteAsync"}
    /\ inflight.tasks[1].pc = "done"
    /\ last' = [last EXCEPT !.ret = inflight.tasks[1].ret,
                            !.events = inflight.events]
    /\ inflight' = Idle
    /\ UNCHANGED <<cfg, cache, disk, stats, subscribed, timer, tally, now>>

\* at most MaxInFlight asynchronous calls run at a time
MaxInFlight == 2

\* an asynchronous call is made, while others may be in flight, and runs up
\* to its first await
Starts(op, key, value, ttl, r) ==
    /\ inflight.op \in {"", "calls"}
    /\ Len(inflight.tasks) < MaxInFlight
    /\ Commit(r.m)
    /\ inflight' = [inflight EXCEPT !.op = "calls", !.tasks = Append(@, r.task),
                                    !.events = @ \o r.m.events]
    /\ last' = Call(op, key, value, ttl, "pending", NoKeys, <<>>)
    /\ UNCHANGED <<cfg, subscribed, timer, tally, now>>

\* the file operation the i-th call in flight awaits takes effect
Operates(i) ==
    /\ inflight.op = "calls"
    /\ i \in 1..Len(inflight.tasks)
    /\ inflight.tasks[i].pc # "done"
    /\ inflight.tasks[i].io = <<>>
    /\ LET io == fileOperation(disk, inflight.tasks[i], now, cfg)
       IN  /\ disk' = io.disk
           /\ inflight' = [inflight EXCEPT !.tasks[i].io = <<io>>]
    /\ UNCHANGED <<cfg, cache, stats, subscribed, timer, tally, now, last>>

\* the i-th call in flight goes on after the file operation it awaited
Proceeds(i) ==
    /\ inflight.op = "calls"
    /\ i \in 1..Len(inflight.tasks)
    /\ inflight.tasks[i].io # <<>>
    /\ LET task == inflight.tasks[i]
           io == task.io[1]
           r == IF task.call = "getAsync" THEN getAsyncAfter(M, task, io, now)
                ELSE IF task.call = "setAsync"
                THEN setAsyncAfter(M, task, io, now, cfg)
                ELSE deleteAsyncAfter(M, task, io)
       IN  /\ Commit(r.m)
           /\ inflight' = [inflight EXCEPT !.tasks[i] = [r.task EXCEPT !.io = <<>>],
                                           !.events = @ \o r.m.events]
    /\ UNCHANGED <<cfg, subscribed, timer, tally, now, last>>

\* the promises of all calls in flight have resolved; list holds what the
\* calls returned
Settles ==
    /\ inflight.op = "calls"
    /\ \A i \in 1..Len(inflight.tasks) : inflight.tasks[i].pc = "done"
    /\ last' = [last EXCEPT
                  !.ret = "settled",
                  !.list = [i \in 1..Len(inflight.tasks) |-> inflight.tasks[i].ret],
                  !.events = inflight.events]
    /\ inflight' = Idle
    /\ UNCHANGED <<cfg, cache, disk, stats, subscribed, timer, tally, now>>

\* new CacheBox(options) on the directory a previous instance left, with the
\* fields as declared in declared; list holds the options
New(declared, options) ==
    \E files \in Listings(disk) :
        LET c == applyOptions(declared, options)
            r == load(disk, files, now, c, TRUE)
        IN  /\ cfg' = c
            /\ Commit(r.m)
            /\ subscribed' = r.m.subscribed
            /\ timer' = r.timer
            /\ last' = Call("new", <<>>, "", <<>>, r.ret, <<options>>, r.m.events)
            /\ tally' = ZeroTally
            /\ UNCHANGED <<inflight, now>>

\* close()
Close ==
    LET r == close(M, timer)
    IN  /\ Commit(r.m)
        /\ subscribed' = r.m.subscribed
        /\ timer' = r.timer
        /\ last' = Call("close", <<>>, "", <<>>, "", NoKeys, r.m.events)
        /\ UNCHANGED <<cfg, inflight, tally, now>>

\* the counters are as resetStats leaves them
Quiet == stats = ZeroStats

\* the calls of the core, each made with the counters reset
Next ==
    \/ Tick
    \/ ResetStats
    \/ Quiet /\ \E key \in Keys : Has(key)
    \/ Quiet /\ \E key \in Keys : Get(key)
    \/ Quiet /\ \E a \in SetArgs : Set(a[1], a[2], a[3])
    \/ Quiet /\ \E key \in Keys : Delete(key)
    \/ Quiet /\ \E key \in AsyncKeys : GetAsync(key)
    \/ Quiet /\ \E a \in SetAsyncArgs : SetAsync(a[1], a[2], a[3])
    \/ Quiet /\ Clear(FALSE)
    \/ Quiet /\ Cleanup
    \/ Quiet /\ KeysCall
    \/ Quiet /\ Restart(cfg, TRUE)

Spec == Init /\ [][Next]_vars

---------------------------------------------------------------------------
(* Key validation: the calls that take a key, over keys of every kind that  *)
(* validateKey tells apart                                                  *)

KeyEmpty == <<>>

KeyTooLong == [i \in 1..(MaxKeyLength + 1) |-> 97]

\* "a.b" and "COM0" pass validateKey
ValidKeys == {<<97, 46, 98>>, <<67, 79, 77, 48>>}

\* "a..b", "../a", "a/b", "a\b", a letter followed by each of <>:"|?* and by
\* the control characters NUL, TAB and US, "user:123", and reserved names in
\* upper, lower and mixed case
InvalidKeys ==
    {KeyEmpty, KeyTooLong, KeyUser,
     <<97, 46, 46, 98>>, <<46, 46, 47, 97>>, <<97, 47, 98>>, <<97, 92, 98>>}
    \cup {<<97, ch>> : ch \in {60, 62, 58, 34, 124, 63, 42, 0, 9, 31}}
    \cup {<<67, 79, 78>>, <<99, 111, 110>>, <<80, 114, 110>>, <<97, 85, 120>>,
          <<110, 117, 108>>, <<67, 111, 109, 49>>, <<108, 112, 116, 57>>}

SampleKeys == ValidKeys \cup InvalidKeys

InitKeys == cfg = ConfigPlain /\ Start

NextKeys ==
    \/ ResetStats
    \/ Quiet /\ \E key \in SampleKeys : Has(key)
    \/ Quiet /\ \E key \in SampleKeys : Get(key)
    \/ Quiet /\ \E key \in SampleKeys : Set(key, "tiny", <<>>)
    \/ Quiet /\ \E key \in SampleKeys : Delete(key)

SpecKeys == InitKeys /\ [][NextKeys]_vars

---------------------------------------------------------------------------
(* Size limit: three keys, one of them with an expiry, under maxSize 1 and 2 *)

ConfigLRU(n) == [ConfigPlain EXCEPT !.maxSize = n]

ConfigsLRU == {ConfigLRU(n) : n \in 1..2}

KeysLRU == {KeyA, KeyB, KeyC}

SetArgsLRU == (KeysLRU \X {"tiny"} \X {<<0>>}) \cup {<<KeyA, "tiny", <<1>>>>}

SetAsyncArgsLRU == {KeyC} \X {"tiny"} \X {<<0>>}

InitLRU == cfg \in ConfigsLRU /\ Start

NextLRU ==
    \/ Tick
    \/ ResetStats
    \/ Quiet /\ \E key \in KeysLRU : Get(key)
    \/ Quiet /\ \E a \in SetArgsLRU : Set(a[1], a[2], a[3])
    \/ Quiet /\ \E a \in SetAsyncArgsLRU : SetAsync(a[1], a[2], a[3])
    \/ Quiet /\ Cleanup
    \/ Quiet /\ \E c \in ConfigsLRU : Restart(c, TRUE)

SpecLRU == InitLRU /\ [][NextLRU]_vars

---------------------------------------------------------------------------
(* Faults: files that vanish, a clear whose file removal fails, a new      *)
(* instance that cannot list its directory                                 *)

KeysFaults == {KeyA, KeyB}

SetArgsFaults == {<<KeyA, "tiny", <<1>>>>, <<KeyB, "tiny", <<0>>>>}

InitFaults == cfg = ConfigPlain /\ Start

NextFaults ==
    \/ Tick
    \/ ResetStats
    \/ \E fileName \in DOMAIN disk : Unlink(fileName)
    \/ Quiet /\ \E key \in KeysFaults : Get(key)
    \/ Quiet /\ \E key \in KeysFaults : GetAsync(key)
    \/ Quiet /\ \E a \in SetArgsFaults : Set(a[1], a[2], a[3])
    \/ Quiet /\ \E key \in KeysFaults : Delete(key)
    \/ Quiet /\ Clear(FALSE)
    \/ Quiet /\ Clear(TRUE)
    \/ Quiet /\ Restart(ConfigPlain, FALSE)

SpecFaults == InitFaults /\ [][NextFaults]_vars

---------------------------------------------------------------------------
(* The counters and the "error" event: calls with valid and invalid keys on *)
(* an instance whose cleanup timer runs                                     *)

\* the calls made while the counters add up to less than MaxCount
MaxCount == 3

ConfigAuto == [ConfigPlain EXCEPT !.enableAutoCleanup = TRUE]

KeysStats == {KeyA, KeyEmpty}

SetArgsStats == KeysStats \X {"tiny"} \X {<<1>>}

Counted ==
    stats.hits + stats.misses + stats.sets + stats.deletes + stats.errors < MaxCount

InitStats == cfg = ConfigAuto /\ Start

NextStats ==
    \/ Tick
    \/ ResetStats
    \/ Subscribe
    \/ TimerFires
    \/ StatsCall
    \/ \E fileName \in DOMAIN disk : Unlink(fileName)
    \/ Counted /\ \E key \in KeysStats : Has(key)
    \/ Counted /\ \E key \in KeysStats : Get(key)
    \/ Counted /\ \E key \in KeysStats : GetAsync(key)
    \/ Counted /\ \E a \in SetArgsStats : Set(a[1], a[2], a[3])
    \/ Counted /\ \E a \in SetArgsStats : SetAsync(a[1], a[2], a[3])
    \/ Counted /\ \E key \in KeysStats : Delete(key)
    \/ Counted /\ \E key \in KeysStats : DeleteAsync(key)

SpecStats == InitStats /\ [][NextStats]_vars

---------------------------------------------------------------------------
(* Batches: lists of one or two entries or keys, a key twice and an invalid *)
(* key among them, under maxSize 1                                          *)

\* the lists of one or two elements of S
Lists(S) == {<<x>> : x \in S} \cup {<<x, y>> : x \in S, y \in S}

EntriesBatch ==
    {[key |-> KeyA, value |-> "tiny", ttl |-> <<0>>],
     [key |-> KeyA, value |-> "null", ttl |-> <<1>>],
     [key |-> KeyB, value |-> "tiny", ttl |-> <<0>>],
     [key |-> KeyEmpty, value |-> "tiny", ttl |-> <<0>>]}

KeysBatch == {KeyA, KeyEmpty}

ConfigsBatch == {ConfigLRU(1)}

InitBatch == cfg \in ConfigsBatch /\ Start

NextBatch ==
    \/ Calm /\ Tick
    \/ Calm /\ ResetStats
    \/ Calm /\ Quiet /\ \E entries \in Lists(EntriesBatch) : SetMany(entries)
    \/ Calm /\ Quiet /\ \E ks \in Lists(KeysBatch) : GetMany(ks)
    \/ Quiet /\ \E entries \in Lists(EntriesBatch) : SetManyAsync(entries)
    \/ Quiet /\ \E ks \in Lists(KeysBatch) : GetManyAsync(ks)
    \/ \E i \in 1..Len(inflight.tasks) : Completes(i)
    \/ Resolves

SpecBatch == InitBatch /\ [][NextBatch]_vars

---------------------------------------------------------------------------
(* Removal failures: files that cannot be removed, under maxSize 1, with    *)
(* the synchronous and the asynchronous calls and cleanup()                 *)

KeysLocks == {KeyA, KeyB}

SetArgsLocks == {<<KeyA, "tiny", <<1>>>>, <<KeyB, "tiny", <<0>>>>}

InitLocks == cfg = ConfigLRU(1) /\ Start

NextLocks ==
    \/ Tick
    \/ ResetStats
    \/ \E fileName \in DOMAIN disk : Lock(fileName)
    \/ Quiet /\ \E key \in KeysLocks : Get(key)
    \/ Quiet /\ \E key \in KeysLocks : GetAsync(key)
    \/ Quiet /\ \E a \in SetArgsLocks : Set(a[1], a[2], a[3])
    \/ Quiet /\ \E a \in SetArgsLocks : SetAsync(a[1], a[2], a[3])
    \/ Quiet /\ \E key \in KeysLocks : Delete(key)
    \/ Quiet /\ \E key \in KeysLocks : DeleteAsync(key)
    \/ Quiet /\ Cleanup

SpecLocks == InitLocks /\ [][NextLocks]_vars

---------------------------------------------------------------------------
(* Compression, enabled and not: values below, at and above the threshold,  *)
(* one of which gzip does not shrink, and one of multi-byte characters      *)

KeysGzip == {KeyA, KeyB}

SetArgsGzip ==
    ({KeyA} \X {"tiny", "four", "big", "noise", "wide"} \X {<<0>>})
    \cup ({KeyB} \X {"big", "noise"} \X {<<1>>})

InitGzip == cfg \in Configs /\ Start

NextGzip ==
    \/ Tick
    \/ ResetStats
    \/ Quiet /\ \E key \in KeysGzip : Get(key)
    \/ Quiet /\ \E a \in SetArgsGzip : Set(a[1], a[2], a[3])
    \/ Quiet /\ \E key \in KeysGzip : Delete(key)
    \/ Quiet /\ CompressionStatsCall

SpecGzip == InitGzip /\ [][NextGzip]_vars

---------------------------------------------------------------------------
(* The cleanup timer: instances made with and without the options           *)
(* cleanupInterval and enableAutoCleanup, each made once the one before it  *)
(* holds no timer; close(); the timer-driven pass                           *)

\* the fields as declared, but for the sizes, which are those of ConfigPlain
Declared ==
    [ConfigPlain EXCEPT !.enableAutoCleanup = TRUE,
                        !.cleanupInterval = DefaultCleanupInterval]

NoOptions == [cleanupInterval |-> <<>>, enableAutoCleanup |-> <<>>]

OptionsTimer ==
    [cleanupInterval : {<<>>, <<0>>, <<-1>>, <<1>>},
     enableAutoCleanup : {<<>>, <<TRUE>>, <<FALSE>>}]

KeysTimer == {KeyA}

SetArgsTimer == {<<KeyA, "tiny", <<1>>>>, <<KeyB, "tiny", <<0>>>>}

\* new CacheBox() on an empty directory
InitTimer == cfg = applyOptions(Declared, NoOptions) /\ Start

NextTimer ==
    \/ Tick
    \/ ResetStats
    \/ Subscribe
    \/ TimerFires
    \/ Close
    \/ ~timer /\ Quiet /\ \E options \in OptionsTimer : New(Declared, options)
    \/ Quiet /\ \E key \in KeysTimer : Get(key)
    \/ Quiet /\ \E a \in SetArgsTimer : Set(a[1], a[2], a[3])

SpecTimer == InitTimer /\ [][NextTimer]_vars

\* setInterval goes on calling the callback as long as the timer is not
\* cleared
SpecTimerFair == SpecTimer /\ WF_vars(TimerFires)

---------------------------------------------------------------------------
(* Races: one asynchronous call on "a" under maxSize 1, step by step, with *)
(* the timer-driven pass and the set of another key between its steps      *)

ConfigRace == [ConfigAuto EXCEPT !.maxSize = 1]

InitRace == cfg = ConfigRace /\ Start

NextRace ==
    \/ Tick
    \/ ResetStats
    \/ TimerFires
    \/ Calm /\ Quiet /\ Set(KeyA, "tiny", <<1>>)
    \/ Quiet /\ Set(KeyB, "tiny", <<0>>)
    \/ Quiet /\ GetAsyncBegins(KeyA)
    \/ Quiet /\ SetAsyncBegins(KeyA, "big", <<1>>)
    \/ Quiet /\ DeleteAsyncBegins(KeyA)
    \/ FileOperation
    \/ Continues
    \/ Returns

SpecRace == InitRace /\ [][NextRace]_vars

---------------------------------------------------------------------------
(* Failing reads and writes: plain and compressed entries whose files are   *)
(* cut short or cannot be read, a value above maxFileSize, and a directory  *)
(* that takes no new file, with and without a listener of "error"           *)

KeysCorrupt == {KeyA, KeyB}

SetArgsCorrupt ==
    {<<KeyA, "big", <<0>>>>, <<KeyB, "tiny", <<1>>>>, <<KeyB, "huge", <<0>>>>}

InitCorrupt == cfg = ConfigGzip /\ Start

NextCorrupt ==
    \/ Tick
    \/ ResetStats
    \/ Subscribe
    \/ \E fileName \in DOMAIN disk : Corrupt(fileName)
    \/ Quiet /\ \E key \in KeysCorrupt : Get(key)
    \/ Quiet /\ \E key \in KeysCorrupt : GetReadFails(key)
    \/ Quiet /\ \E a \in SetArgsCorrupt : Set(a[1], a[2], a[3])
    \/ Quiet /\ \E a \in SetArgsCorrupt : SetWriteFails(a[1], a[2], a[3])
    \/ Quiet /\ \E a \in SetArgsCorrupt : SetAsync(a[1], a[2], a[3])
    \/ Quiet /\ \E key \in KeysCorrupt : Delete(key)

SpecCorrupt == InitCorrupt /\ [][NextCorrupt]_vars

---------------------------------------------------------------------------
(* The filename codec on its own: keys that end like the metadata of a file *)
(* name, keys of digits and underscores, and a key with a line separator    *)

\* "a", "k_1", "a_c", "a_1_c", "a_", "_", "_c", "_1", "1", "a_01", "a__1",
\* "a.b" and "a" U+2028 "b"
KeysCodec ==
    {KeyA, KeyK1, <<97, 95, 99>>, <<97, 95, 49, 95, 99>>, <<97, 95>>, <<95>>,
     <<95, 99>>, <<95, 49>>, <<49>>, <<97, 95, 48, 49>>, <<97, 95, 95, 49>>,
     <<97, 46, 98>>, <<97, 8232, 98>>}

ExpiresAts == {0, 1, 9, 10, 101, 1200}

TriplesCodec == KeysCodec \X ExpiresAts \X BOOLEAN

InitCodec == cfg = ConfigPlain /\ Start

NextCodec ==
    \/ \E a \in TriplesCodec : GenerateFileName(a[1], a[2], a[3])
    \/ ParseFileName

SpecCodec == InitCodec /\ [][NextCodec]_vars

---------------------------------------------------------------------------
(* Concurrent calls: up to MaxInFlight calls of setAsync, getAsync and      *)
(* deleteAsync on one key in flight together, each awaited file operation   *)
(* taking effect and each call going on in any order; no operation fails    *)
(* but for the file being there or not                                      *)

SetArgsCalls == {<<KeyA, "tiny", <<0>>>>, <<KeyA, "big", <<1>>>>}

NextCalls ==
    \/ Calm /\ Tick
    \/ Calm /\ ResetStats
    \/ (Calm => Quiet) /\ Starts("getAsync", KeyA, "", <<>>, getAsyncBegin(M, KeyA, now))
    \/ (Calm => Quiet) /\ \E a \in SetArgsCalls :
           Starts("setAsync", a[1], a[2], a[3],
                  setAsyncBegin(M, a[1], a[2], a[3], now, cfg))
    \/ (Calm => Quiet) /\ Starts("deleteAsync", KeyA, "", <<>>, deleteAsyncBegin(M, KeyA))
    \/ \E i \in 1..MaxInFlight : Operates(i)
    \/ \E i \in 1..MaxInFlight : Proceeds(i)
    \/ Settles

SpecCalls == InitFaults /\ [][NextCalls]_vars

---------------------------------------------------------------------------
(* What the claims speak of *)

\* the file name the Index metadata of an entry encodes
FileNameOf(e) == generateFileName(e.key, e.ttl, e.compressed)

\* the engine state after the step
MNext ==
    [cache |-> cache', disk |-> disk', stats |-> stats', subscribed |-> subscribed',
     events |-> <<>>]

\* an absolute expiry time has passed: expiresAt is not 0 and lies before t
Expired(expiresAt, t) == expiresAt # 0 /\ expiresAt < t

\* the read that belongs to a write: get to set, getAsync to setAsync
ReadOf(op) == IF op = "set" THEN "get" ELSE "getAsync"

---------------------------------------------------------------------------
(* C1 *)

\* C1: when set (setAsync) has returned true for key k and value v, and the
\* next call, after any lapse of time, is get (getAsync) of k made while the
\* entry has not expired, that call returns v.
C1_RoundTrip ==
    [][(/\ last.op \in {"set", "setAsync"}
        /\ last.ret = "true"
        /\ last'.op = ReadOf(last.op)
        /\ last'.key = last.key
        /\ ~(CacheHas(cache, last.key)
             /\ Expired(CacheGet(cache, last.key).ttl, now)))
       => last'.ret = last.value]_vars

\* a get returned a value that is stored compressed, after time has passed
C1_Witness ==
    /\ last.op = "get"
    /\ last.ret = "big"
    /\ CacheHas(cache, last.key)
    /\ CacheGet(cache, last.key).compressed
    /\ CacheGet(cache, last.key).created < now

---------------------------------------------------------------------------
(* C2 *)

\* C2: every key of the Index has exactly one file in the directory, the one
\* its Index metadata encodes, and the directory holds no other file.
C2_IndexMatchesDirectory ==
    /\ \A i \in 1..Len(cache) :
          {f \in DOMAIN disk : parseFileName(f).ok /\ parseFileName(f).key = cache[i].key}
              = {FileNameOf(cache[i])}
    /\ DOMAIN disk = {FileNameOf(cache[i]) : i \in 1..Len(cache)}
    /\ \A i, j \in 1..Len(cache) : cache[i].key = cache[j].key => i = j

\* a set has replaced the entry of a key while another key is stored: the
\* new entry is compressed and expires, and two files are on disk
C2_Witness ==
    /\ last.op = "set"
    /\ last.ret = "true"
    /\ Len(cache) = 2
    /\ Cardinality(DOMAIN disk) = 2
    /\ CacheGet(cache, last.key).compressed
    /\ CacheGet(cache, last.key).ttl # 0
    /\ CacheGet(cache, last.key).created = MaxClock

---------------------------------------------------------------------------
(* C3 *)

\* C3: when set has returned true for k and v and the next thing to happen is
\* the construction of a new instance on the same directory, then on the new
\* instance, if the entry had not expired at construction, get(k) returns v;
\* if it had expired, its file is gone, k is not in the Index, has(k) is
\* false and get(k) is null.
C3_Persistence ==
    [][(/\ last.op = "set"
        /\ last.ret = "true"
        /\ last'.op = "new")
       => IF CacheHas(cache, last.key)
             /\ Expired(CacheGet(cache, last.key).ttl, now)
          THEN /\ FileNameOf(CacheGet(cache, last.key)) \notin DOMAIN disk'
               /\ ~CacheHas(cache', last.key)
               /\ has(MNext, last.key, now).ret = "false"
               /\ get(MNext, last.key, now).ret = "null"
          ELSE get(MNext, last.key, now).ret = last.value]_vars

\* a new instance has loaded a compressed entry of the key "k_1"
C3_Witness ==
    /\ last.op = "new"
    /\ CacheHas(cache, KeyK1)
    /\ CacheGet(cache, KeyK1).compressed
    /\ get(M, KeyK1, now).ret = "big"

---------------------------------------------------------------------------
(* C4 *)

\* the time set was called and the ttl it was given, for a set with ttl > 0
\* that returned true and was the last call
SetWithTtl ==
    /\ last.op = "set"
    /\ last.ret = "true"
    /\ last.ttl # <<>>
    /\ last.ttl[1] > 0
    /\ CacheHas(cache, last.key)

\* C4 as claimed: after set(k, v, ttl) with ttl > 0 at time t0, a has(k) that
\* is the next call returns true at t0 and false at every time at which ttl
\* milliseconds have elapsed since t0.
C4_Original ==
    [][(/\ SetWithTtl
        /\ last'.op = "has"
        /\ last'.key = last.key)
       => LET t0 == CacheGet(cache, last.key).created
          IN /\ now = t0 => last'.ret = "true"
             /\ now - t0 >= last.ttl[1] => last'.ret = "false"]_vars

\* C4 as amended: has(k) returns true at every time up to and including
\* t0 + ttl, and false at every time later than t0 + ttl.
C4_HasUntilExpiry ==
    [][(/\ SetWithTtl
        /\ last'.op = "has"
        /\ last'.key = last.key)
       => LET t0 == CacheGet(cache, last.key).created
          IN /\ now - t0 <= last.ttl[1] => last'.ret = "true"
             /\ now - t0 > last.ttl[1] => last'.ret = "false"]_vars

\* has returned true at the very millisecond the entry expires at
C4_Witness ==
    /\ last.op = "has"
    /\ last.ret = "true"
    /\ CacheHas(cache, last.key)
    /\ CacheGet(cache, last.key).ttl = now

---------------------------------------------------------------------------
(* C5 *)

\* a set with ttl 0, or with no ttl when defaultTTL is 0
NeverExpiring(call, c) ==
    /\ call.op \in {"set", "setAsync"}
    /\ call.ret = "true"
    /\ call.ttl = <<0>> \/ (call.ttl = <<>> /\ c.defaultTTL = 0)

\* C5: a set with ttl 0 (or no ttl and defaultTTL 0) stores expiresAt 0, and
\* whatever the clock shows no has, get, getAsync, keys, cleanup or new
\* instance removes or hides an entry whose expiresAt is 0.
C5_NeverExpires ==
    [][/\ NeverExpiring(last', cfg) => CacheGet(cache', last'.key).ttl = 0
       /\ \A i \in 1..Len(cache) :
            (/\ cache[i].ttl = 0
             /\ last'.op \in {"has", "get", "getAsync", "keys", "cleanup", "new"})
            => /\ CacheHas(cache', cache[i].key)
               /\ CacheGet(cache', cache[i].key).ttl = 0
               /\ FileNameOf(cache[i]) \in DOMAIN disk'
               /\ (last'.op = "has" /\ last'.key = cache[i].key)
                     => last'.ret = "true"
               /\ (last'.op \in {"get", "getAsync"} /\ last'.key = cache[i].key)
                     => last'.ret # "null"
               /\ last'.op = "keys"
                     => \E j \in 1..Len(last'.list) : last'.list[j] = cache[i].key]_vars

\* has found an entry that never expires, after the clock has moved on
C5_Witness ==
    /\ last.op = "has"
    /\ last.ret = "true"
    /\ CacheGet(cache, last.key).ttl = 0
    /\ CacheGet(cache, last.key).created < now
    /\ now = MaxClock

---------------------------------------------------------------------------
(* C6 *)

\* the keys C6 names: empty, longer than 255 characters, holding "..", "/"
\* or "\", holding one of <>:"|?* or a control character, or equal to a
\* reserved device name in any letter case
NamedInvalid(key) ==
    \/ key = <<>>
    \/ Len(key) > 255
    \/ \E i \in 1..(Len(key) - 1) : key[i] = 46 /\ key[i + 1] = 46
    \/ \E i \in 1..Len(key) : key[i] \in {47, 92, 60, 62, 58, 34, 124, 63, 42}
    \/ \E i \in 1..Len(key) : key[i] < 32
    \/ \E name \in ReservedNames : ToUpper(key) = ToUpper(name)

\* C6: for every key C6 names, set returns false, get returns null, has
\* returns false, and the call leaves the Index and the directory as they were.
C6_InvalidKeyRejected ==
    [][NamedInvalid(last'.key)
       => /\ last'.op = "set" => last'.ret = "false"
          /\ last'.op = "get" => last'.ret = "null"
          /\ last'.op = "has" => last'.ret = "false"
          /\ last'.op \in {"set", "get", "has"} => cache' = cache /\ disk' = disk]_vars

\* set has refused the reserved name "con" while the Index holds two entries
C6_Witness ==
    /\ last.op = "set"
    /\ last.key = <<99, 111, 110>>
    /\ last.ret = "false"
    /\ Len(cache) = 2
    /\ Cardinality(DOMAIN disk) = 2

---------------------------------------------------------------------------
(* C7 *)

\* C7 as claimed: the key "user:123" is usable: set stores the value (it
\* returns true and the key is in the Index), and has and get, called on the
\* key while it is in the Index, return true and the value.
C7_ColonKeyUsable ==
    last.key = KeyUser
    => /\ last.op = "set" => last.ret = "true" /\ CacheHas(cache, KeyUser)
       /\ (last.op = "has" /\ CacheHas(cache, KeyUser)) => last.ret = "true"
       /\ (last.op = "get" /\ CacheHas(cache, KeyUser)) => last.ret = "tiny"

---------------------------------------------------------------------------
(* C8 *)

\* the state set(A), set(B), get(A) leave on an empty cache: the Index holds
\* A and B in the order they were stored, neither expires, B has not been
\* read since it was stored, and the last call was a get of A that found it,
\* made no earlier than B was stored
AfterSetSetGet ==
    /\ cfg.maxSize = 2
    /\ Len(cache) = 2
    /\ cache[1].key = KeyA /\ cache[1].ttl = 0
    /\ cache[2].key = KeyB /\ cache[2].ttl = 0
    /\ cache[1].created <= cache[2].created
    /\ cache[2].accessed = cache[2].created
    /\ cache[1].accessed >= cache[2].created
    /\ last.op = "get" /\ last.key = KeyA /\ last.ret = "tiny"

\* C8 as claimed: with maxSize 2, when set(A), set(B), get(A) are followed by
\* set(C), then has(B) is false, has(A) is true and has(C) is true.
C8_EvictsLeastRecentlyRead ==
    [][(/\ AfterSetSetGet
        /\ last'.op = "set"
        /\ last'.key = KeyC)
       => /\ has(MNext, KeyB, now).ret = "false"
          /\ has(MNext, KeyA, now).ret = "true"
          /\ has(MNext, KeyC, now).ret = "true"]_vars

---------------------------------------------------------------------------
(* C9 *)

\* C9: with maxSize >= 1, when set or setAsync has returned true the Index
\* holds at most maxSize entries.
C9_SizeLimit ==
    (/\ cfg.maxSize >= 1
     /\ last.op \in {"set", "setAsync"}
     /\ last.ret = "true")
    => Len(cache) <= cfg.maxSize

\* a set under maxSize 1 has returned true and left its key alone in the
\* Index, which an instance with a larger limit had filled before
C9_Witness ==
    /\ cfg.maxSize = 1
    /\ last.op = "set"
    /\ last.ret = "true"
    /\ last.before = 2
    /\ Len(cache) = 1
    /\ cache[1].key = last.key
    /\ Cardinality(DOMAIN disk) = 1
    /\ cache[1].created = MaxClock

---------------------------------------------------------------------------
(* C10 *)

\* the last call was a set of a value whose encoding is larger than maxFileSize
SetTooLarge(call, c) ==
    call.op = "set" /\ ByteLength(call.value) > c.maxFileSize

\* C10 as claimed: such a set returns false, and after it there is no Index
\* entry and no file for the key.
C10_Original ==
    SetTooLarge(last, cfg)
    => /\ last.ret = "false"
       /\ ~CacheHas(cache, last.key)
       /\ \A f \in DOMAIN disk : parseFileName(f).key # last.key

\* C10 as amended: such a set returns false and changes neither the Index nor
\* the directory, so a key that had no entry and no file before has none after.
C10_RejectsTooLarge ==
    [][SetTooLarge(last', cfg)
       => /\ last'.ret = "false"
          /\ cache' = cache
          /\ disk' = disk]_vars

\* a too large value was refused for a key that has an entry
C10_Witness ==
    /\ SetTooLarge(last, cfg)
    /\ last.ret = "false"
    /\ CacheHas(cache, last.key)

---------------------------------------------------------------------------
(* C11 *)

\* clear() is called, and all its file removals succeed or one of them fails
ClearStep == Clear(FALSE) \/ Clear(TRUE)

\* C11: when clear() returns true, then size() is 0, keys() is empty, the
\* directory holds no file, and the call has emitted one "clear" event, whose
\* entriesRemoved is the number of Index entries there were before the call.
C11_ClearEmpties ==
    [][(last'.op = "clear" /\ last'.ret = "true" /\ ClearStep)
       => /\ size(MNext) = 0
          /\ keys(MNext, now) = <<>>
          /\ DOMAIN disk' = {}
          /\ last'.events = <<[type |-> "clear", entriesRemoved |-> Len(cache)]>>]_vars

\* clear() has returned true where the Index held two entries
C11_Witness ==
    /\ last.op = "clear"
    /\ last.ret = "true"
    /\ last.before = 2
    /\ cache = <<>>
    /\ DOMAIN disk = {}

---------------------------------------------------------------------------
(* C12 *)

\* C12 as claimed: whatever clear() returns, the Index it leaves lists no key
\* whose file the call has removed.
C12_ClearKeepsIndexAndDiskTogether ==
    [][ClearStep
       => \A i \in 1..Len(cache') :
             FileNameOf(cache'[i]) \in DOMAIN disk
             => FileNameOf(cache'[i]) \in DOMAIN disk']_vars

---------------------------------------------------------------------------
(* C13 *)

\* the directory d without the file fileName
Without(d, fileName) == [f \in DOMAIN d \ {fileName} |-> d[f]]

\* C13: delete(k) of a valid key the Index does not list returns true and
\* changes no entry, file or counter and emits nothing; delete(k) of a key the
\* Index lists removes its file and its entry, adds one to deletes, emits one
\* "change" event and returns true, the same when the file is already gone;
\* has(k) is false afterwards.
C13_Delete ==
    [][\A key \in KeysFaults :
          Delete(key) /\ validateKey(key)
          => /\ last'.ret = "true"
             /\ has(MNext, key, now).ret = "false"
             /\ IF CacheHas(cache, key)
                THEN /\ ~CacheHas(cache', key)
                     /\ disk' = Without(disk, FileNameOf(CacheGet(cache, key)))
                     /\ stats' = [stats EXCEPT !.deletes = @ + 1]
                     /\ last'.events = <<ChangeEvent("delete", key)>>
                ELSE /\ UNCHANGED <<cache, disk, stats>>
                     /\ last'.events = <<>>]_vars

\* delete has removed an entry whose file was gone already: the directory
\* held fewer files than the Index held entries, and holds as many as before
C13_Witness ==
    /\ last.op = "delete"
    /\ last.ret = "true"
    /\ last.before = Len(cache) + 1
    /\ last.filesBefore < last.before
    /\ last.filesBefore = Cardinality(DOMAIN disk)
    /\ stats.deletes = 1

---------------------------------------------------------------------------
(* C14 *)

\* C14 as claimed: when the cache directory cannot be inspected at startup,
\* the construction throws and gives no instance.
C14_ConstructionAborts ==
    [][Restart(ConfigPlain, FALSE) => last'.ret = "throws"]_vars

---------------------------------------------------------------------------
(* C16 *)

\* the Index lists key and the file of its entry is not in the directory
FileMissing(key) ==
    /\ CacheHas(cache, key)
    /\ FileNameOf(CacheGet(cache, key)) \notin DOMAIN disk

\* C16: a get or getAsync that finds the file of an Index entry missing
\* removes the key from the Index, counts exactly one miss and no hit, returns
\* null, and reports no error.
C16_MissingFileIsAMiss ==
    [][\A key \in KeysFaults :
          (Get(key) \/ GetAsync(key)) /\ FileMissing(key)
          => /\ ~CacheHas(cache', key)
             /\ stats'.misses = stats.misses + 1
             /\ stats'.hits = stats.hits
             /\ stats'.errors = stats.errors
             /\ last'.ret = "null"
             /\ \A i \in 1..Len(last'.events) : last'.events[i].type # "error"]_vars

\* get has found the file of a live entry missing: the entry is gone without
\* a delete, and one miss is counted
C16_Witness ==
    /\ last.op = "get"
    /\ last.ret = "null"
    /\ last.before = Len(cache) + 1
    /\ last.filesBefore < last.before
    /\ stats = [ZeroStats EXCEPT !.misses = 1]

---------------------------------------------------------------------------
(* C15 *)

\* a public keyed operation is called with key
KeyedCall(key) ==
    \/ Has(key) \/ Get(key) \/ GetAsync(key)
    \/ Delete(key) \/ DeleteAsync(key)
    \/ \E a \in SetArgsStats : a[1] = key /\ (Set(a[1], a[2], a[3]) \/ SetAsync(a[1], a[2], a[3]))

\* C15 as claimed: every public keyed operation called with a key that fails
\* validation adds one to the error counter, emits an "error" event when there
\* is a subscriber, and returns false or null.
C15_InvalidKeyCounted ==
    [][\A key \in KeysStats :
          KeyedCall(key) /\ ~validateKey(key)
          => /\ stats'.errors = stats.errors + 1
             /\ subscribed
                => \E i \in 1..Len(last'.events) : last'.events[i].type = "error"
             /\ last'.ret \in {"false", "null"}]_vars

---------------------------------------------------------------------------
(* C17 *)

\* get or getAsync of key returns the value stored for it: the Index lists
\* key, its entry has not expired, and what the call returns is what the
\* file of the entry holds
ReturnsStored(key) ==
    /\ CacheHas(cache, key)
    /\ ~Expired(CacheGet(cache, key).ttl, now)
    /\ FileNameOf(CacheGet(cache, key)) \in DOMAIN disk
    /\ last'.ret = disk[FileNameOf(CacheGet(cache, key))].data.value

\* hits + misses is the number of get and getAsync calls with a valid key,
\* and sets the number of set and setAsync calls that returned true, since
\* the construction or the last resetStats; the hitRate stats() reports is
\* hits / (hits + misses), and 0 when both are 0
CountersMatchCalls ==
    /\ stats.hits + stats.misses = tally.gets
    /\ stats.sets = tally.sets
    /\ last.op = "stats"
       => LET p == last.list[1]
          IN  p.hitRate = IF p.hits + p.misses = 0 THEN <<0, 1>>
                          ELSE <<p.hits, p.hits + p.misses>>

\* C17: the counters match the calls (CountersMatchCalls) in every state, and
\* a get or getAsync with a valid key counts a hit exactly when it returns the
\* stored value.
C17_CountersMatchCalls ==
    /\ []CountersMatchCalls
    /\ [][\A key \in KeysStats :
             (Get(key) \/ GetAsync(key)) /\ validateKey(key)
             => (stats'.hits = stats.hits + 1 <=> ReturnsStored(key))
                /\ stats'.hits \in {stats.hits, stats.hits + 1}]_vars

\* stats() has been called after one hit, one miss and one successful set
C17_Witness ==
    /\ last.op = "stats"
    /\ last.list[1].hitRate = <<1, 2>>
    /\ stats.hits = 1 /\ stats.misses = 1 /\ stats.sets = 1
    /\ tally = [gets |-> 2, sets |-> 1]

---------------------------------------------------------------------------
(* C18 *)

\* C18: resetStats sets hits, misses, sets, deletes and errors to 0 and leaves
\* the Index, the files and the cleanup timer as they are.
C18_ResetStats ==
    [][ResetStats => stats' = ZeroStats /\ UNCHANGED <<cache, disk, timer>>]_vars

\* resetStats has been called after a set that was counted, on an instance
\* with an entry, its file and a running timer
C18_Witness ==
    /\ last.op = "set"
    /\ last.ret = "true"
    /\ last.reset
    /\ stats = ZeroStats
    /\ Len(cache) = 1
    /\ DOMAIN disk # {}
    /\ timer

---------------------------------------------------------------------------
(* C19 *)

\* the calls call(args[1]), call(args[2]), ... made one after the other, each
\* on the state the one before left: the state they leave and what they return
RECURSIVE InOrder(_, _, _, _, _)
InOrder(call, r, args, t, c) ==
    IF args = <<>> THEN r
    ELSE LET a == Head(args)
             one == CASE call = "set" -> set(r.m, a.key, a.value, a.ttl, t, c)
                      [] call = "setAsync" -> setAsync(r.m, a.key, a.value, a.ttl, t, c)
                      [] call = "get" -> get(r.m, a, t)
                      [] call = "getAsync" -> getAsync(r.m, a, t)
         IN InOrder(call, [m |-> one.m, rets |-> Append(r.rets, one.ret)],
                    Tail(args), t, c)

\* the Index lists key with an entry that has not expired
Live(key) ==
    CacheHas(cache, key) /\ ~Expired(CacheGet(cache, key).ttl, now)

\* C19 as claimed: setMany applies set to the entries in list order, results[i]
\* is what the i-th set returned, success + failed is the number of entries,
\* and what the sets did stays done; getMany returns one record per key in
\* list order, whose value is what get returns for the key and whose found is
\* true exactly when the key has a live entry.
C19_Batches ==
    [][/\ \A entries \in Lists(EntriesBatch) :
             SetMany(entries)
             => LET out == last'.list[1]
                    seq == InOrder("set", [m |-> M, rets |-> <<>>], entries, now, cfg)
                IN  /\ out.results = seq.rets
                    /\ out.success + out.failed = Len(entries)
                    /\ out.success = Occurrences(out.results, "true")
                    /\ cache' = seq.m.cache
                    /\ disk' = seq.m.disk
       /\ \A ks \in Lists(KeysBatch) :
             GetMany(ks)
             => LET records == last'.list
                    seq == InOrder("get", [m |-> M, rets |-> <<>>], ks, now, cfg)
                IN  /\ Len(records) = Len(ks)
                    /\ \A i \in 1..Len(ks) :
                          /\ records[i].key = ks[i]
                          /\ records[i].value = seq.rets[i]
                          /\ records[i].found <=> Live(ks[i])]_vars

---------------------------------------------------------------------------
(* C20 *)

\* the entries of an Index, whatever their order
Entries(index) == {index[i] : i \in 1..Len(index)}

\* C20 as claimed: when setManyAsync or getManyAsync returns, the result of
\* each call of the list, the Index and the directory are those that setAsync
\* or getAsync, called one after the other in list order on the Index and
\* directory the batch started on, return and leave.
C20_AsyncBatchAsInOrder ==
    [][Resolves
       => LET sets == inflight.op = "setManyAsync"
              seq == InOrder(IF sets THEN "setAsync" ELSE "getAsync",
                             [m |-> [M EXCEPT !.cache = inflight.from.cache,
                                              !.disk = inflight.from.disk],
                              rets |-> <<>>],
                             inflight.args, now, cfg)
          IN  /\ IF sets THEN last'.list[1].results = seq.rets
                 ELSE [i \in 1..Len(last'.list) |-> last'.list[i].value] = seq.rets
              /\ Entries(cache') = Entries(seq.m.cache)
              /\ disk' = seq.m.disk]_vars

---------------------------------------------------------------------------
(* C21 *)

\* what a call returns and leaves: the result, the Index, the directory and
\* the counters
Outcome(r) == <<r.ret, r.m.cache, r.m.disk, r.m.stats>>

\* C21 (as the specification states it): from every state, and also when the
\* removal of a file fails, get and getAsync, set and setAsync, delete and
\* deleteAsync, each run alone to completion, return the same result and
\* leave the same Index, the same directory and the same counters.
\* delete and deleteAsync differ on an entry whose file cannot be removed.
C21_AsyncAsSync ==
    /\ \A key \in KeysLocks :
           /\ Outcome(getAsync(M, key, now)) = Outcome(get(M, key, now))
           /\ Outcome(deleteAsync(M, key)) = Outcome(delete(M, key))
    /\ \A a \in SetArgsLocks :
           Outcome(setAsync(M, a[1], a[2], a[3], now, cfg))
               = Outcome(set(M, a[1], a[2], a[3], now, cfg))

---------------------------------------------------------------------------
(* C25 *)

\* the Index holds an entry for key whose expiry has passed
ExpiredInIndex(key) ==
    CacheHas(cache, key) /\ Expired(CacheGet(cache, key).ttl, now)

\* the directory holds a file of key whose expiry has passed
ExpiredInDirectory(key) ==
    \E fileName \in DOMAIN disk :
        /\ parseFileName(fileName).key = key
        /\ Expired(parseFileName(fileName).ttl, now)

\* C25: while the engine holds its timer, an entry whose expiry has passed
\* is eventually gone from the Index and from the directory, whether or not
\* the user makes any call, given that the timer keeps firing and that every
\* file removal succeeds.
C25_ExpiredEventuallyRemoved ==
    \A key \in {KeyA, KeyB} :
        (timer /\ ExpiredInIndex(key))
            ~> (~timer \/ (~ExpiredInIndex(key) /\ ~ExpiredInDirectory(key)))

\* the entry the last call has set has expired, and the timer-driven pass
\* has removed it and its file
C25_Witness ==
    /\ timer
    /\ last.op = "set"
    /\ last.ret = "true"
    /\ last.key = KeyA
    /\ ~CacheHas(cache, KeyA)
    /\ \A fileName \in DOMAIN disk : parseFileName(fileName).key # KeyA
    /\ CacheHas(cache, KeyB)

---------------------------------------------------------------------------
(* C26 *)

\* the entries a step removes from the Index whose expiry had passed when the
\* step was taken, and those whose expiry had not
RemovedExpired ==
    {i \in 1..Len(cache) :
        Expired(cache[i].ttl, now) /\ ~CacheHas(cache', cache[i].key)}

RemovedLive ==
    {i \in 1..Len(cache) :
        ~Expired(cache[i].ttl, now) /\ ~CacheHas(cache', cache[i].key)}

\* C26 (as the specification states it): cleanup() returns {expired, removed}
\* where expired is the number of entries the call removed because they had
\* expired and removed the number it evicted by LRU.
\* cleanup() returns expired = 0 always, and counts the expired entries it
\* removed in removed.
C26_CleanupReturns ==
    [][Cleanup =>
          last'.list[1] = [expired |-> Cardinality(RemovedExpired),
                           removed |-> Cardinality(RemovedLive)]]_vars

---------------------------------------------------------------------------
(* C30 *)

\* the cleanup summaries among the events of the last call
Summaries(events) == SelectSeq(events, LAMBDA e : e.type = "cleanup")

\* C30 (as the specification states it): the cleanup pass of a cleanup() call
\* announces a summary exactly when it removed at least one entry from the
\* Index, and the summary carries the number of entries the expire pass
\* removed and the number the LRU pass removed, also when the removal of a
\* file fails.
\* An entry whose file cannot be removed stays in the Index and is counted
\* all the same.
C30_SummaryCountsRemovals ==
    [][Cleanup =>
          Summaries(last'.events) =
              IF RemovedExpired = {} /\ RemovedLive = {} THEN <<>>
              ELSE <<CleanupEvent(Cardinality(RemovedExpired),
                                  Cardinality(RemovedLive))>>]_vars

---------------------------------------------------------------------------
(* C28 *)

\* the expire notifications for key among events
ExpiryNotices(events, key) ==
    SelectSeq(events, LAMBDA e : e.type = "expire" /\ e.key = key)

\* C28: when the cleanup pass of cleanup() has completed, with now the time
\* it read at its start and every file removal succeeding, the Index holds
\* no entry and the directory no file whose expiry is not 0 and lies before
\* now, and the pass has announced exactly one expiry for each key it
\* removed for that reason and none for any other key.
C28_ExpirePass ==
    [][Cleanup =>
          /\ \A i \in 1..Len(cache') : ~Expired(cache'[i].ttl, now)
          /\ \A fileName \in DOMAIN disk' :
                 ~Expired(parseFileName(fileName).ttl, now)
          /\ \A i \in 1..Len(cache) :
                 Len(ExpiryNotices(last'.events, cache[i].key)) =
                     IF i \in RemovedExpired THEN 1 ELSE 0
          /\ \A i \in 1..Len(cache) :
                 Expired(cache[i].ttl, now) => i \in RemovedExpired
          /\ \A i \in 1..Len(last'.events) :
                 last'.events[i].type = "expire"
                     => CacheHas(cache, last'.events[i].key)]_vars

\* cleanup() has removed an expired entry and kept one that had not expired
C28_Witness ==
    /\ last.op = "cleanup"
    /\ ~last.reset
    /\ last.before = 2
    /\ Len(cache) = 1
    /\ \E i \in 1..Len(last.events) :
           last.events[i].type = "expire" /\ ~CacheHas(cache, last.events[i].key)

---------------------------------------------------------------------------
(* C29 *)

\* what the LRU pass has to make of the Index pre, read at time t under
\* maxSize n, post being the Index the cleanup pass leaves: live is what the
\* expire pass leaves of pre, in insertion order
LRUPass(pre, post, t, n) ==
    LET live == SelectSeq(pre, LAMBDA e : ~Expired(e.ttl, t))
        evicted == {i \in 1..Len(live) : ~CacheHas(post, live[i].key)}
    IN  /\ Len(post) = Len(live) - Cardinality(evicted)
        /\ IF n = 0 \/ Len(live) <= n THEN evicted = {}
           ELSE /\ Cardinality(evicted) = Len(live) - n
                /\ \A i \in evicted : \A j \in (1..Len(live)) \ evicted :
                       \/ live[i].accessed < live[j].accessed
                       \/ live[i].accessed = live[j].accessed /\ i < j

\* the Index a set that returns true hands to its cleanup pass
IndexSetLeaves(call) ==
    set(M, call.key, call.value, call.ttl, now, [cfg EXCEPT !.maxSize = 0]).m.cache

\* C29: in the cleanup pass of cleanup() and in the one a set runs, the LRU
\* pass removes nothing unless the Index the expire pass leaves holds more
\* than maxSize entries; then it removes exactly size - maxSize of them, the
\* ones with the smallest accessedAt, the earlier inserted first among equal
\* accessedAt, so that no survivor has a smaller accessedAt than an evicted
\* entry.
C29_LRUPass ==
    [][/\ Cleanup => LRUPass(cache, cache', now, cfg.maxSize)
       /\ (/\ last'.op = "set"
           /\ last'.ret = "true"
           /\ Set(last'.key, last'.value, last'.ttl)
           /\ cfg.maxSize # 0
           /\ Len(IndexSetLeaves(last')) > cfg.maxSize)
          => LRUPass(IndexSetLeaves(last'), cache', now, cfg.maxSize)]_vars

\* a set under maxSize 1 on an Index of two entries has evicted both and
\* kept its own key
C29_Witness ==
    /\ cfg.maxSize = 1
    /\ last.op = "set"
    /\ last.ret = "true"
    /\ ~last.reset
    /\ last.before = 2
    /\ last.key = KeyC
    /\ Len(cache) = 1
    /\ cache[1].key = KeyC
    /\ \E i \in 1..Len(last.events) :
           last.events[i] = CleanupEvent(0, 2)

---------------------------------------------------------------------------
(* C27 *)

\* the value stored for an entry of the Index
StoredValue(e) == disk[FileNameOf(e)].data.value

\* the encoded size of the value exceeds the threshold, and its compressed
\* form is shorter than its encoded form
Shrinks(value, c) ==
    ByteLength(value) > c.compressionThreshold /\ GzipLength(value) < CharLength(value)

\* C27 as claimed: with compression enabled, every stored value whose encoded
\* size exceeds the threshold is retrievable equal to the original and is
\* counted in compressionStats().compressedEntries, and every stored value
\* whose encoded size is below the threshold is stored uncompressed.
C27_Original ==
    cfg.enableCompression =>
        /\ \A i \in 1..Len(cache) :
               LET e == cache[i]
                   value == StoredValue(e)
               IN  /\ ByteLength(value) > cfg.compressionThreshold
                         => /\ e.compressed
                            /\ ~Expired(e.ttl, now) => get(M, e.key, now).ret = value
                   /\ ByteLength(value) < cfg.compressionThreshold => ~e.compressed
        /\ last.op = "compressionStats"
               => last.list[1].compressedEntries
                      >= Cardinality({i \in 1..Len(cache) :
                             ByteLength(StoredValue(cache[i]))
                                 > cfg.compressionThreshold})

\* C27: with compression enabled, every stored value is retrievable equal to
\* the original until it expires; a stored value is compressed, and counted
\* in compressionStats().compressedEntries, exactly when its encoded size
\* exceeds the threshold and its compressed form is shorter than its encoded
\* form; every other stored value, so every one whose encoded size is at or
\* below the threshold, is stored uncompressed.
C27_Compression ==
    cfg.enableCompression =>
        /\ \A i \in 1..Len(cache) :
               LET e == cache[i]
                   value == StoredValue(e)
               IN  /\ e.compressed <=> Shrinks(value, cfg)
                   /\ disk[FileNameOf(e)].data =
                          IF Shrinks(value, cfg) THEN Gzipped(value) ELSE Plain(value)
                   /\ ~Expired(e.ttl, now) => get(M, e.key, now).ret = value
        /\ last.op = "compressionStats"
               => last.list[1].compressedEntries
                      = Cardinality({i \in 1..Len(cache) :
                            Shrinks(StoredValue(cache[i]), cfg)})

\* compressionStats() has counted one compressed entry of two, the other
\* holding a value above the threshold that gzip does not shrink
C27_Witness ==
    /\ cfg.enableCompression
    /\ last.op = "compressionStats"
    /\ last.list[1].compressedEntries = 1
    /\ Len(cache) = 2
    /\ \E i, j \in 1..2 :
           /\ StoredValue(cache[i]) = "big"
           /\ cache[i].compressed
           /\ StoredValue(cache[j]) = "noise"
           /\ ~cache[j].compressed
           /\ get(M, cache[j].key, now).ret = "noise"

---------------------------------------------------------------------------
(* C22 *)

\* every entry of the Index has its file, which holds what deserialize
\* accepts, and every file of the directory is the file of an entry
IndexAndDirectoryAgree ==
    /\ \A i \in 1..Len(cache) :
           /\ FileNameOf(cache[i]) \in DOMAIN disk
           /\ deserialize(disk[FileNameOf(cache[i])].data, cache[i].compressed).ok
    /\ \A fileName \in DOMAIN disk :
           \E i \in 1..Len(cache) : FileNameOf(cache[i]) = fileName

\* C22: when cleanup passes, timer-driven or run by the set of another key
\* that exceeds maxSize, have run between the steps of a getAsync, setAsync
\* or deleteAsync, then once the call has returned every Index entry has its
\* file, every file has its Index entry and holds what was written, and the
\* call has returned what it returns without the passes or, for getAsync, a
\* miss.
C22_RaceWithCleanup ==
    Calm =>
        /\ IndexAndDirectoryAgree
        /\ last.op = "getAsync" => last.ret \in {"null", "tiny", "big"}
        /\ last.op \in {"setAsync", "deleteAsync"} => last.ret = "true"

\* a getAsync that found its entry live and awaited stat has returned a
\* miss: a pass has removed the entry between its steps
C22_Witness ==
    /\ Calm
    /\ last.op = "getAsync"
    /\ last.list = <<"stat">>
    /\ last.ret = "null"
    /\ ~last.reset

---------------------------------------------------------------------------
(* C23 *)

\* the last call made the instance, with options
MadeWith(call) == call.op = "new" /\ call.list # <<>>

\* auto-cleanup is enabled by the fields the constructor has set
AutoCleanupEnabled(c) == c.enableAutoCleanup /\ c.cleanupInterval > 0

\* a timer-driven pass that removes something
TimerPass == TimerFires /\ cache' # cache

\* C23: a new instance holds a timer exactly when auto-cleanup is enabled
\* (enableAutoCleanup is true and the interval the constructor has set is
\* positive); close() leaves the engine without a timer and touches neither
\* the Index nor the directory nor the counters; after close() no
\* timer-driven pass runs, and nothing but the making of a new instance
\* starts a timer again; a close() that follows a close(), no listener having
\* been added in between, changes nothing.
C23_TimerLifecycle ==
    [][/\ (MadeWith(last') /\ New(Declared, last'.list[1]))
          => (timer' <=> AutoCleanupEnabled(cfg'))
       /\ Close => ~timer' /\ UNCHANGED <<cfg, cache, disk, stats>>
       /\ (last.op = "close" /\ ~subscribed /\ Close)
          => UNCHANGED <<cfg, cache, disk, stats, subscribed, timer>>
       /\ last.op = "close" => ~TimerPass
       /\ ~timer => ~TimerPass
       /\ (~timer /\ timer') => (last'.op = "new" /\ last' # last)]_vars

\* close() has stopped the timer of an instance whose Index holds an expired
\* entry
C23_Witness ==
    /\ last.op = "close"
    /\ ~timer
    /\ AutoCleanupEnabled(cfg)
    /\ \E i \in 1..Len(cache) : Expired(cache[i].ttl, now)

---------------------------------------------------------------------------
(* C24 *)

\* the options disable the periodic cleanup as the specification has it: a
\* cleanupInterval of 0 or less is given, or enableAutoCleanup is false
Disabling(options) ==
    \/ options.cleanupInterval # <<>> /\ options.cleanupInterval[1] <= 0
    \/ options.enableAutoCleanup = <<FALSE>>

\* C24 (as the specification states it): an instance made with a
\* cleanupInterval of 0 or less, or with enableAutoCleanup false, holds no
\* timer, and no timer-driven pass runs on it.
\* new CacheBox({cleanupInterval: 0}) keeps the interval of five minutes and
\* starts the timer.
C24_DisabledNoTimer ==
    [][/\ (/\ MadeWith(last')
           /\ Disabling(last'.list[1])
           /\ New(Declared, last'.list[1]))
          => ~timer'
       /\ (MadeWith(last) /\ Disabling(last.list[1]))
          => ~(TimerFires /\ cache' # cache)]_vars

---------------------------------------------------------------------------
(* C31 *)

\* the conditions C31 names: compression is enabled, the encoded size of the
\* value is above the threshold, and its compressed form is smaller than its
\* encoded form, both in bytes
MayCompress(value, c) ==
    /\ c.enableCompression
    /\ ByteLength(value) > c.compressionThreshold
    /\ GzipLength(value) < ByteLength(value)

\* C31: every entry of the Index has its file; the file holds the compressed
\* form only if compression is enabled, the encoded size of the value exceeds
\* the threshold and the compressed form is strictly smaller than the encoded
\* form, and holds the uncompressed form otherwise; and the compressed flag
\* of the Index entry, and the one its file name decodes to, say which form
\* the file holds.
C31_CompressedOnlyIfSmaller ==
    \A i \in 1..Len(cache) :
        LET e == cache[i]
        IN  /\ FileNameOf(e) \in DOMAIN disk
            /\ LET data == disk[FileNameOf(e)].data
               IN  /\ data.form = "gzip" => MayCompress(data.value, cfg)
                   /\ ~MayCompress(data.value, cfg) => data = Plain(data.value)
                   /\ e.compressed <=> data.form = "gzip"
                   /\ parseFileName(FileNameOf(e)).compressed <=> data.form = "gzip"

\* with compression enabled the Index holds a compressed entry, and set has
\* just stored uncompressed a value above the threshold whose compressed form
\* has fewer bytes but more characters than its encoded form
C31_Witness ==
    /\ cfg.enableCompression
    /\ last.op = "set"
    /\ last.ret = "true"
    /\ last.value = "wide"
    /\ MayCompress("wide", cfg)
    /\ Len(cache) = 2
    /\ \E i, j \in 1..2 :
           /\ cache[i].key = last.key
           /\ ~cache[i].compressed
           /\ disk[FileNameOf(cache[i])].data = Plain("wide")
           /\ cache[j].compressed
           /\ disk[FileNameOf(cache[j])].data = Gzipped("big")

---------------------------------------------------------------------------
(* C32 *)

\* the Index lists key, the entry has not expired, and its file is there
FilePresent(key) ==
    /\ CacheHas(cache, key)
    /\ ~Expired(CacheGet(cache, key).ttl, now)
    /\ FileNameOf(CacheGet(cache, key)) \in DOMAIN disk

\* the file of the entry of key cannot be deserialized
Undecodable(key) ==
    LET e == CacheGet(cache, key)
    IN  ~deserialize(disk[FileNameOf(e)].data, e.compressed).ok

\* the "error" events among events
Errors(events) == {i \in 1..Len(events) : events[i].type = "error"}

\* C32: a get that finds the file of the entry present, and fails to read it
\* or to deserialize what it read, returns null, counts exactly one miss and
\* no hit, counts exactly one error and hands exactly one "error" event to
\* the listener if there is one, and leaves the Index and the directory as
\* they were.
C32_UnreadableFile ==
    [][\A key \in KeysCorrupt :
          /\ FilePresent(key)
          /\ \/ GetReadFails(key)
             \/ Undecodable(key) /\ Get(key)
          => /\ last'.ret = "null"
             /\ stats'.misses = stats.misses + 1
             /\ stats'.hits = stats.hits
             /\ stats'.errors = stats.errors + 1
             /\ Cardinality(Errors(last'.events)) = IF subscribed THEN 1 ELSE 0
             /\ cache' = cache
             /\ disk' = disk]_vars

\* with a listener of "error" subscribed, get has failed on the truncated
\* file of a compressed entry: one miss and one error are counted, and the
\* entry and its file are still there
C32_Witness ==
    /\ last.op = "get"
    /\ last.list = <<>>
    /\ last.ret = "null"
    /\ ~last.reset
    /\ subscribed
    /\ Cardinality(Errors(last.events)) = 1
    /\ stats = [ZeroStats EXCEPT !.misses = 1, !.errors = 1]
    /\ FilePresent(last.key)
    /\ CacheGet(cache, last.key).compressed
    /\ disk[FileNameOf(CacheGet(cache, last.key))].data = Truncated("big")

---------------------------------------------------------------------------
(* C33 *)

\* C33 as claimed: every error the last public call has reported is a
\* CacheError that carries the name of that call and the key it was given.
C33_ErrorsNameTheCall ==
    \A i \in Errors(last.events) :
        /\ last.events[i].isCacheError
        /\ last.events[i].operation = last.op
        /\ last.events[i].key = Some(last.key)

---------------------------------------------------------------------------
(* C34 *)

\* the triple the last generateFileName was given
Encoded == <<last.key, last.ttl[1], last.list[1].compressed>>

\* C34 as claimed: for every valid key, every expiresAt >= 0 and both values
\* of the compressed flag, parseFileName gives back, from the name that
\* generateFileName made of them, the key, the expiresAt and the flag; and
\* no other triple of a valid key is given the same name.
C34_CodecRoundTrip ==
    (last.op \in {"generateFileName", "parseFileName"} /\ validateKey(last.key))
    => /\ last.op = "parseFileName"
             => last.list[2] = [ok |-> TRUE, key |-> Encoded[1], ttl |-> Encoded[2],
                                compressed |-> Encoded[3]]
       /\ \A a \in TriplesCodec :
              (validateKey(a[1])
               /\ generateFileName(a[1], a[2], a[3]) = last.list[1].fileName)
              => a = Encoded

---------------------------------------------------------------------------
(* C35 *)

\* the "change" events among events
Changes(events) == {i \in 1..Len(events) : events[i].type = "change"}

\* C35 as claimed: a set that returns true for a key the Index already lists
\* adds one to the sets counter, leaves the deletes counter as it was, and
\* announces exactly one "change", the one of the set.
C35_OverwriteIsOneSet ==
    [][(/\ last'.op = "set"
        /\ last'.ret = "true"
        /\ CacheHas(cache, last'.key)
        /\ Set(last'.key, last'.value, last'.ttl))
       => /\ stats'.sets = stats.sets + 1
          /\ stats'.deletes = stats.deletes
          /\ Cardinality(Changes(last'.events)) = 1
          /\ \A i \in Changes(last'.events) : last'.events[i].operation = "set"]_vars

---------------------------------------------------------------------------
(* C36 *)

\* the keys that keys() lists when called now
Listed == {keys(M, now)[i] : i \in 1..Len(keys(M, now))}

\* C36 as claimed: at every instant, the instant an entry expires at
\* included, keys() lists a key exactly when has of that key, called at the
\* same instant, returns true.
C36_KeysAgreesWithHas ==
    \A key \in Keys \cup CacheKeys(cache) :
        key \in Listed <=> has(M, key, now).ret = "true"

---------------------------------------------------------------------------
(* C37 *)

\* the step is a call of set or setAsync with the arguments last' records
SetCalled ==
    \/ Set(last'.key, last'.value, last'.ttl)
    \/ SetWriteFails(last'.key, last'.value, last'.ttl)
    \/ SetAsync(last'.key, last'.value, last'.ttl)

\* C37 as claimed: a set or setAsync that returns false, be it for an invalid
\* key, the size limit, a failed serialization or a failed file write, leaves
\* the Index and the directory exactly as they were, so that a value stored
\* under the key before is still returned by get.
C37_FailedSetChangesNothing ==
    [][(/\ last'.op \in {"set", "setAsync"}
        /\ last'.ret = "false"
        /\ SetCalled)
       => /\ cache' = cache
          /\ disk' = disk
          /\ get(MNext, last'.key, now).ret = get(M, last'.key, now).ret]_vars

---------------------------------------------------------------------------
(* C38 *)

\* C38 as claimed: once concurrent calls of setAsync, getAsync and
\* deleteAsync on one key have all completed, none of their file operations
\* having failed for another reason than the file being there or not, every
\* key of the Index has its encoded file in the directory and the directory
\* holds no file that the Index does not list.
C38_ConcurrentCallsLeaveNoOrphan ==
    (Calm /\ last.ret = "settled")
    => /\ \A i \in 1..Len(cache) : FileNameOf(cache[i]) \in DOMAIN disk
       /\ \A fileName \in DOMAIN disk :
              \E i \in 1..Len(cache) : FileNameOf(cache[i]) = fileName

====
